---- MODULE Spec2Model ----
(***************************************************************************)
(* Model of the chasi-bod orchestration core: the deployment orchestrator  *)
(* (pkg/deployer), the vcluster deployment phase (pkg/deployer/phases),    *)
(* the lifecycle manager's ScaleHostCluster (pkg/lifecycle) and the        *)
(* vcluster manager (pkg/vcluster).                                        *)
(***************************************************************************)
EXTENDS Integers, Sequences, FiniteSets, TLC

(* ---------------------------- bounds ---------------------------------- *)
\* largest node list of a PlatformConfig / of a nodesToAdd, nodesToRemove list
MaxNodes == 2
\* number of poll attempts that fit in the polling deadline (5m / 5s in the
\* source, scaled down)
MaxPolls == 2
\* largest replica count of a control-plane deployment
MaxReplicas == 1
\* number of manager operations called one after the other in a run
MaxOps == 2
\* the most results one aggregation is given
MaxChecks == 3
MaxAddrLen == 3

(* ---------------------------- inputs ---------------------------------- *)
Addresses == <<"10.0.0.1", "10.0.0.2", "10.0.0.3", "10.0.0.4", "10.0.0.5", "10.0.0.6">>
TenantNames == {"biz-a", "biz-b"}
\* host namespaces a VClusterConfig may name: the conventional one or another
ConventionalNs(name) == IF name = "biz-a" THEN "vcluster-biz-a" ELSE "vcluster-biz-b"
NamespaceNames == {"vcluster-biz-a", "vcluster-biz-b", "tenants"}

\* model.NodeConfig, reduced to the fields the orchestration reads
NodeConfigs == [Address : {Addresses[i] : i \in 1..Len(Addresses)}, Master : BOOLEAN]
\* node lists with pairwise distinct addresses, in address order
NodeLists(lo, hi, n) ==
    { s \in UNION { [1..k -> NodeConfigs] : k \in 0..n } :
        /\ \A i \in DOMAIN s : s[i].Address \in {Addresses[j] : j \in lo..hi}
        /\ \A i, j \in DOMAIN s : i < j => s[i].Address # s[j].Address
        /\ \A i \in DOMAIN s : s[i].Address = Addresses[lo + i - 1] }

\* model.VClusterConfig maps accepted by validateVClusterConfig: Name = key
VClusterMaps ==
    UNION { { m \in [ks -> [Name : TenantNames, Namespace : NamespaceNames]] :
                \A k \in ks : m[k].Name = k } : ks \in SUBSET TenantNames }

(* ---------------------------- errors ---------------------------------- *)
\* an error value: its kind, the strings formatted into its message, and the
\* kind of the error it wraps
\* Err losing the error it wraps
ErrDroppingCause(t, m, c) == [type |-> t, msg |-> m, cause |-> "nil"]
NoError == [type |-> "nil", msg |-> <<>>, cause |-> "nil"]
Pending == [type |-> "pending", msg |-> <<>>, cause |-> "nil"]
Err(t, m, c) == [type |-> t, msg |-> m, cause |-> c]

\* the host client Deploy holds: `var hostK8sClient interface{}` is never assigned
NilClient == "nil"
ValidClient == "kubernetes.Interface"

VARIABLES
    config,        \* the *model.PlatformConfig of the run
    calls,         \* every phase / deployer / manager invocation, in order
    dPhase,        \* Deploy: 0 not started, 1..7 phase under way, 8 returned
    dNode,         \* Deploy: index of the node the per-node phase is at
    deployErr,     \* Deploy: the returned error
    vpPc,          \* VClusterDeployPhase.Run: position
    vpClient,      \* VClusterDeployPhase.Run: the hostK8sClient argument
    vpCaller,      \* VClusterDeployPhase.Run: "deploy" or "direct"
    vpRemaining,   \* VClusterDeployPhase.Run: map keys the range has not visited
    vpCur,         \* VClusterDeployPhase.Run: the key of the current iteration
    vpErr,         \* VClusterDeployPhase.Run: the returned error
    hostNamespaces,   \* host cluster: the namespaces that exist
    hostDeployments,  \* host cluster: <<namespace, name>> -> deployment status
    hostCerts,        \* host cluster: tenant -> state of its certs secret
    tenantApiUp,      \* tenant -> whether its API server answers a List
    crPc,          \* Create: position ("idle", "ns", "apply", "poll", "ret")
    crCfg,         \* Create: the *model.VClusterConfig argument
    crCaller,      \* Create: "phase" or "direct"
    crNsResult,    \* Create: what Namespaces().Create answered
    crPolls,       \* Create: poll attempts made so far
    crSeen,        \* Create: the deployment status the last poll read
    crErr,         \* Create: the returned error
    wPc,           \* WaitForReady: position ("idle", "poll", "ret")
    wName,         \* WaitForReady: the name argument
    wCaller,       \* WaitForReady: "phase" or "direct"
    wPolls,        \* WaitForReady: poll attempts made so far
    wSeen,         \* WaitForReady: what the last attempt got
    wErr,          \* WaitForReady: the returned error
    scPc,          \* ScaleHostCluster: position ("idle", "add", "remove", "ret")
    scAdd,         \* ScaleHostCluster: the nodesToAdd argument
    scRemove,      \* ScaleHostCluster: the nodesToRemove argument
    scIdx,         \* ScaleHostCluster: index the current range loop is at
    scaleErr,      \* ScaleHostCluster: the returned error
    hostTerminating,  \* host cluster: the namespaces whose deletion is under way
    dlPc,          \* Delete: position ("idle", "del", "poll", "ret")
    dlName,        \* Delete: the name argument
    dlDelResult,   \* Delete: what Namespaces().Delete answered
    dlPolls,       \* Delete: poll attempts made so far
    dlSeen,        \* Delete: what the last poll attempt got
    dlErr,         \* Delete: the returned error
    ctxErr,        \* ctx.Err() as the running manager call found it
    rsIn,          \* client resolver: the secrets of the tenant's host namespace
    rsOut,         \* client resolver: what GetVClusterClient returned
    hcResults,     \* health: the []HealthCheckResult being aggregated
    hcOverall,     \* health: the Status determineOverallStatus returned
    componentCheckers, \* healthz manager: the names RegisterComponentCheck stored
    goPc,          \* GetOverallStatus: position ("idle", "copy", "spawn", "wait", "done")
    goSnapshot,    \* runComponentChecks: the checkers slice copied under RLock
    goNext,        \* runComponentChecks: index the spawning loop is at
    goTask,        \* runComponentChecks: per index, "new", "running" or "done"
    goResults,     \* runComponentChecks: the results slice
    goOverall,      \* GetOverallStatus: the OverallHealthStatus it returns
    goWaited,       \* runComponentChecks: the time each checker has been blocked on its checkCtx
    rcPc, \* RunClusterChecks: position ("idle", "host", "tenants", "ret")
    rcTenants, \* RunClusterChecks: the keys of config.VClusters
    rcRemaining, \* RunClusterChecks: keys the range has not visited
    rcChecked, \* RunClusterChecks: the checks made, in order, with their outcome
    rcErrors, \* RunClusterChecks: clusterCheckErrors
    rcErr, \* RunClusterChecks: the returned error
    lcOp, \* lifecycle manager: "backup" or "restore"
    lcPc, \* BackupPlatform / RestorePlatform: position ("etcd", "config", "ret")
    lcCfg, \* the DFXConfig.Reliability switches and Cluster.Nodes of the config argument
    lcLocation, \* RestorePlatform: the backupLocation argument
    lcSteps, \* the backup or restore steps carried out, in order, with their outcome
    lcErr, \* BackupPlatform / RestorePlatform: the returned error
    vaCfg, \* ValidateConfig: the *model.PlatformConfig argument
    vaOut, \* ValidateConfig: the returned error
    vaPc, \* ValidateConfig: the range loop it is in ("idle", "nodes", "apps", "done")
    vaIdx, \* validateClusterConfig: the nodes its range loop has visited
    vaRemaining, \* ValidateConfig: the application keys its range loop has not visited
    vaCopies, \* the loop variables nodeCfg / appCfg after the validation of each
    cliCmd, \* CLI: the command being run
    cliPc, \* CLI: position of its RunE ("load", "validate", "lookup", "client", "op", "ret")
    cliCfg, \* CLI: the content of the file at configFilePath
    cliCur, \* CLI: the content of the .current.yaml file upgrade reads
    cliName, \* CLI: the <vcluster-name> argument
    cliPassed, \* CLI: the configs ValidateConfig has accepted in this run
    cliOps, \* CLI: the deployer / lifecycle / vcluster manager calls made, with their configs
    cliErr \* CLI: the error RunE returned

deployVars == <<dPhase, dNode, deployErr>>
phaseVars == <<vpPc, vpClient, vpCaller, vpRemaining, vpCur, vpErr>>
hostVars == <<hostNamespaces, hostDeployments, hostCerts, tenantApiUp>>
createVars == <<crPc, crCfg, crCaller, crNsResult, crPolls, crSeen, crErr>>
waitVars == <<wPc, wName, wCaller, wPolls, wSeen, wErr>>
managerVars == <<hostVars, createVars, waitVars>>
scaleVars == <<scPc, scAdd, scRemove, scIdx, scaleErr>>
deleteVars == <<dlPc, dlName, dlDelResult, dlPolls, dlSeen, dlErr>>
overallVars == <<componentCheckers, goPc, goSnapshot, goNext, goTask, goResults, goOverall, goWaited>>
checksVars == <<rcPc, rcTenants, rcRemaining, rcChecked, rcErrors, rcErr>>
recoveryVars == <<lcOp, lcPc, lcCfg, lcLocation, lcSteps, lcErr>>
loopVars == <<vaPc, vaIdx, vaRemaining, vaCopies>>
validateVars == <<vaCfg, vaOut, loopVars>>
cliVars == <<cliCmd, cliPc, cliCfg, cliCur, cliName, cliPassed, cliOps, cliErr>>
extVars == <<overallVars, checksVars, recoveryVars, validateVars, cliVars>>
pureVars == <<rsIn, rsOut, hcResults, hcOverall, extVars>>
moreVars == <<hostTerminating, deleteVars, ctxErr, pureVars>>
\* everything Deploy and the vcluster phase leave alone
outsideDeploy == <<managerVars, scaleVars, moreVars>>
vars == <<config, calls, deployVars, phaseVars, hostVars, createVars, waitVars, scaleVars, moreVars>>

(* ------------------------ deployment phases --------------------------- *)
PhaseNames == <<"Init", "OSConfig", "RuntimeConfig", "NetworkConfig",
                "StorageConfig", "K8sInstall", "VClusterDeploy">>

HasMaster(nodes) == \E i \in DOMAIN nodes : nodes[i].Master

Call(op, target, ok) == [op |-> op, target |-> target, ok |-> ok]

\* `if err := ...; err != nil { return ... }`: the test every call site makes
Failed(err) == err # NoError

\* position after the range loop of a per-node phase has finished node i
AfterNode(p, i, n) ==
    IF i < n THEN <<p, i + 1>>
    ELSE IF p < 5 THEN <<p + 1, 1>>
    ELSE <<6, 0>>

\* NodePhaseNext with the error logged and the loop continued
NodePhaseNextContinue(p, i, n, ok) ==
    IF i < n THEN <<p, i + 1>>
    ELSE IF p < 5 THEN <<p + 1, 1>>
    ELSE <<6, 0>>

\* NodePhaseNext starting the pipeline over after an error
NodePhaseNextStartOver(p, i, n, ok) ==
    IF ok THEN AfterNode(p, i, n) ELSE <<1, 1>>

\* where Deploy goes after phase.Run of phase p for node i: on an error it
\* returns, else the range loop goes on
NodePhaseNext(p, i, n, ok) ==
    IF ok THEN AfterNode(p, i, n) ELSE <<8, i>>

\* Deploy is entered: the first per-node loop starts (or is empty)
DeployStart ==
    /\ dPhase = 0
    /\ IF Len(config.Nodes) = 0
         THEN dPhase' = 6 /\ dNode' = 0
         ELSE dPhase' = 1 /\ dNode' = 1
    /\ UNCHANGED <<config, calls, deployErr, phaseVars, outsideDeploy>>

\* one iteration of the range loop of phases 1..5: phase.Run for one node
DeployNodePhase ==
    /\ dPhase \in 1..5
    /\ \E ok \in BOOLEAN :
        /\ calls' = Append(calls, Call(PhaseNames[dPhase], config.Nodes[dNode].Address, ok))
        /\ IF ok
             THEN UNCHANGED deployErr
             ELSE deployErr' = Err("System", <<PhaseNames[dPhase], config.Nodes[dNode].Address>>, "phase")
        /\ dPhase' = NodePhaseNext(dPhase, dNode, Len(config.Nodes), ok)[1]
        /\ dNode' = NodePhaseNext(dPhase, dNode, Len(config.Nodes), ok)[2]
    /\ UNCHANGED <<config, phaseVars, outsideDeploy>>

\* defaultK8sInstallPhase.Run: a node list without a master is refused, the
\* rest succeeds unless the context ends during a simulated step
K8sInstallRun(nodes, ctxEnds) ==
    IF ~HasMaster(nodes) THEN Err("Validation", <<"no master nodes">>, "nil")
    ELSE IF ctxEnds THEN Err("context", <<>>, "nil")
    ELSE NoError

\* phase 6, once for the whole node list
DeployK8sInstall ==
    /\ dPhase = 6
    /\ \E ctxEnds \in BOOLEAN :
        LET r == K8sInstallRun(config.Nodes, ctxEnds) IN
        /\ calls' = Append(calls, Call("K8sInstall", "cluster", r = NoError))
        /\ IF r = NoError
             THEN dPhase' = 7 /\ UNCHANGED deployErr
             ELSE /\ deployErr' = Err("System", <<"K8sInstall">>, r.type)
                  /\ dPhase' = 8
    /\ UNCHANGED <<config, dNode, phaseVars, outsideDeploy>>

\* phase 7: Deploy calls vclusterDeployPhase.Run with its placeholder client
DeployVClusterDeploy ==
    /\ dPhase = 7
    /\ vpPc = "idle"
    /\ vpPc' = "entry"
    /\ vpClient' = NilClient
    /\ vpCaller' = "deploy"
    /\ calls' = Append(calls, Call("VClusterDeploy.call", "cluster", TRUE))
    /\ UNCHANGED <<config, deployVars, vpRemaining, vpCur, vpErr, outsideDeploy>>

\* vclusterDeployPhase.Run has returned to Deploy
DeployReturn ==
    /\ dPhase = 7
    /\ vpPc = "ret"
    /\ vpCaller = "deploy"
    /\ deployErr' = IF vpErr = NoError THEN NoError
                    ELSE Err("VCluster", <<"vcluster deployment phase failed">>, vpErr.type)
    /\ dPhase' = 8
    /\ vpPc' = "done"
    /\ UNCHANGED <<config, calls, dNode, vpClient, vpCaller, vpRemaining, vpCur, vpErr,
                   outsideDeploy>>

(* ------------------- VClusterDeployPhase.Run -------------------------- *)
\* the type assertion, NewManager and the empty-map check that open Run
VClusterPhaseEntry ==
    /\ vpPc = "entry"
    /\ IF vpClient # ValidClient
         THEN /\ vpErr' = Err("Internal", <<"invalid Host Kubernetes client">>, "nil")
              /\ vpPc' = "ret"
              /\ UNCHANGED <<vpRemaining, vpCur>>
         ELSE IF DOMAIN config.VClusters = {}
         THEN /\ vpErr' = NoError
              /\ vpPc' = "ret"
              /\ UNCHANGED <<vpRemaining, vpCur>>
         ELSE /\ vpRemaining' = DOMAIN config.VClusters
              /\ vpPc' = "loop"
              /\ UNCHANGED <<vpErr, vpCur>>
    /\ UNCHANGED <<config, calls, deployVars, vpClient, vpCaller, outsideDeploy>>


(* ------------- defaultDeployer.AddNode and RemoveNode ------------------ *)
\* the phase.Run calls AddNode makes for a node when phase failAt (0: none)
\* returns an error: the five per-node phases in order, up to the failing one
AddNodePhaseCalls(addr, failAt) ==
    [k \in 1..(IF failAt = 0 THEN 5 ELSE failAt) |-> Call(PhaseNames[k], addr, k # failAt)]

\* AddNodeCalls going through all five phases whatever their outcome
AddNodeCallsKeepGoing(addr, failAt) ==
    [k \in 1..5 |-> Call(PhaseNames[k], addr, k # failAt)]
      \o <<Call("K8sJoin", addr, TRUE)>>

\* everything AddNode does for the new node: the phasesToRun loop, left at
\* the first error, and after it the join step, which only logs
AddNodeCalls(addr, failAt) ==
    AddNodePhaseCalls(addr, failAt)
      \o (IF failAt = 0 THEN <<Call("K8sJoin", addr, TRUE)>> ELSE <<>>)

\* AddNode's result
AddNodeRun(addr, failAt) ==
    IF failAt = 0 THEN NoError
    ELSE Err("System", <<PhaseNames[failAt], addr>>, "phase")

\* RemoveNode's result: drain, deletion and OS cleanup are logged only
RemoveNodeRun(addr) == NoError

(* ------------------- lifecycle ScaleHostCluster ------------------------ *)
Range(s) == {s[i] : i \in DOMAIN s}

\* the sub-list of s at the indices in S, in order
SubList(s, S) ==
    LET F[i \in 0..Len(s)] ==
          IF i = 0 THEN <<>>
          ELSE IF i \in S THEN Append(F[i - 1], s[i]) ELSE F[i - 1]
    IN F[Len(s)]

\* position after the add loop / the remove loop has finished index i
AfterAdd(i, nAdd, nRemove) ==
    IF i < nAdd THEN <<"add", i + 1>>
    ELSE IF nRemove > 0 THEN <<"remove", 1>>
    ELSE <<"ret", 0>>

AfterRemove(i, nRemove) ==
    IF i < nRemove THEN <<"remove", i + 1>> ELSE <<"ret", 0>>

\* AddNodeFailed with the error of AddNode dropped
AddNodeFailedNever(err) == FALSE

\* `if err := m.platformDeployer.AddNode(...); err != nil { return ... }`
AddNodeFailed(err) == err # NoError

\* ScaleHostCluster is called with nodes to add (new addresses) and nodes to
\* remove (nodes of the configuration)
ScaleCall ==
    /\ scPc = "idle"
    /\ \E add \in NodeLists(MaxNodes + 1, 2 * MaxNodes, MaxNodes),
          S \in SUBSET DOMAIN config.Nodes :
        LET remove == SubList(config.Nodes, S)
            first == AfterAdd(0, Len(add), Len(remove)) IN
        /\ scAdd' = add
        /\ scRemove' = remove
        /\ scPc' = first[1]
        /\ scIdx' = first[2]
        /\ scaleErr' = IF first[1] = "ret" THEN NoError ELSE scaleErr
    /\ UNCHANGED <<config, calls, deployVars, phaseVars, managerVars, moreVars>>

\* step 1, one iteration: platformDeployer.AddNode for one node
ScaleAddNode ==
    /\ scPc = "add"
    /\ \E failAt \in 0..5 :
        LET addr == scAdd[scIdx].Address
            err == AddNodeRun(addr, failAt)
            next == AfterAdd(scIdx, Len(scAdd), Len(scRemove)) IN
        /\ calls' = calls \o AddNodeCalls(addr, failAt)
                          \o <<Call("AddNode", addr, err = NoError)>>
        /\ IF AddNodeFailed(err)
             THEN /\ scaleErr' = Err("System", <<"failed to add node", addr>>, err.type)
                  /\ scPc' = "ret"
                  /\ UNCHANGED scIdx
             ELSE /\ scPc' = next[1]
                  /\ scIdx' = next[2]
                  /\ scaleErr' = IF next[1] = "ret" THEN NoError ELSE scaleErr
    /\ UNCHANGED <<config, deployVars, phaseVars, managerVars, scAdd, scRemove, moreVars>>

\* step 2, one iteration: platformDeployer.RemoveNode for one node
ScaleRemoveNode ==
    /\ scPc = "remove"
    /\ LET addr == scRemove[scIdx].Address
           err == RemoveNodeRun(addr)
           next == AfterRemove(scIdx, Len(scRemove)) IN
        /\ calls' = Append(calls, Call("RemoveNode", addr, err = NoError))
        /\ IF Failed(err)
             THEN /\ scaleErr' = Err("System", <<"failed to remove node", addr>>, err.type)
                  /\ scPc' = "ret"
                  /\ UNCHANGED scIdx
             ELSE /\ scPc' = next[1]
                  /\ scIdx' = next[2]
                  /\ scaleErr' = IF next[1] = "ret" THEN NoError ELSE scaleErr
    /\ UNCHANGED <<config, deployVars, phaseVars, managerVars, scAdd, scRemove, moreVars>>

\* the nodes the deployer reports as members after the calls made so far
AddedNodes == {n \in Range(scAdd) : Call("AddNode", n.Address, TRUE) \in Range(calls)}
RemovedNodes == {n \in Range(scRemove) : Call("RemoveNode", n.Address, TRUE) \in Range(calls)}
LiveNodes == (Range(config.Nodes) \cup AddedNodes) \ RemovedNodes
Masters(nodes) == {n \in nodes : n.Master}

(* ------------------------- host cluster ------------------------------- *)
Absent == [Exists |-> FALSE, Replicas |-> 0, ReadyReplicas |-> 0]
\* appsv1.DeploymentStatus of a deployment that exists
DeploymentStatuses ==
    { d \in [Exists : {TRUE}, Replicas : 0..MaxReplicas, ReadyReplicas : 0..MaxReplicas] :
        d.ReadyReplicas <= d.Replicas }
DeploymentKeys == NamespaceNames \X TenantNames
\* the <name>-certs secret as the tenant's control plane leaves it: not there,
\* with an empty ca.crt, with a CA certificate
CertStates == {"absent", "emptyCA", "ok"}
\* and as a call of the resolver may find it: also without a ca.crt key, or
\* with a ca.crt that is no certificate
SecretContents == CertStates \cup {"noCAKey", "badCA"}
\* the tenant's bearer-token secret: not there, with an empty token, with a token
TokenStates == {"absent", "emptyToken", "ok"}

InitHost(namespaces) ==
    /\ hostNamespaces = namespaces
    /\ hostDeployments = [k \in DeploymentKeys |-> Absent]
    /\ hostCerts = [t \in TenantNames |-> "absent"]
    /\ tenantApiUp = [t \in TenantNames |-> FALSE]

InitScale ==
    /\ scPc = "idle" /\ scAdd = <<>> /\ scRemove = <<>> /\ scIdx = 0
    /\ scaleErr = Pending

InitManager ==
    /\ crPc = "idle" /\ crCfg = [Name |-> "none", Namespace |-> "none"]
    /\ crCaller = "none" /\ crNsResult = "none" /\ crPolls = 0
    /\ crSeen = Absent /\ crErr = Pending
    /\ wPc = "idle" /\ wName = "none" /\ wCaller = "none" /\ wPolls = 0
    /\ wSeen = "none" /\ wErr = Pending

InitDelete ==
    /\ hostTerminating = {}
    /\ dlPc = "idle" /\ dlName = "none" /\ dlDelResult = "none" /\ dlPolls = 0
    /\ dlSeen = "none" /\ dlErr = Pending
    /\ ctxErr = "nil"

\* no resolver call and no aggregation has been made
\* a healthz manager as NewManager returns it, GetOverallStatus not called
IdleOverall ==
    /\ componentCheckers = {}
    /\ goPc = "idle" /\ goSnapshot = <<>> /\ goNext = 0
    /\ goTask = <<>> /\ goResults = <<>> /\ goOverall = Pending /\ goWaited = <<>>


\* RunClusterChecks not called
IdleChecks ==
    /\ rcPc = "idle" /\ rcTenants = {} /\ rcRemaining = {}
    /\ rcChecked = <<>> /\ rcErrors = <<>> /\ rcErr = Pending


\* neither BackupPlatform nor RestorePlatform called
IdleRecovery ==
    /\ lcOp = "none" /\ lcPc = "idle"
    /\ lcCfg = [ETCDBackup |-> FALSE, ConfigBackup |-> FALSE, Nodes |-> <<>>]
    /\ lcLocation = "" /\ lcSteps = <<>> /\ lcErr = Pending


\* ValidateConfig not called
\* no range loop of ValidateConfig under way
IdleLoop == vaPc = "idle" /\ vaIdx = 0 /\ vaRemaining = {} /\ vaCopies = <<>>

IdleValidate == vaCfg = "none" /\ vaOut = Pending /\ IdleLoop


\* no command running
IdleCli ==
    /\ cliCmd = "none" /\ cliPc = "idle" /\ cliCfg = "none" /\ cliCur = "none"
    /\ cliName = "none" /\ cliPassed = {} /\ cliOps = <<>> /\ cliErr = Pending

InitExt == IdleOverall /\ IdleChecks /\ IdleRecovery /\ IdleValidate /\ IdleCli

InitPure ==
    /\ rsIn = "none" /\ rsOut = Pending
    /\ hcResults = <<>> /\ hcOverall = "none"
    /\ InitExt

\* the namespaces a running Create or WaitForReady could be looking at
WatchedNamespaces(name, namespace) == {namespace, ConventionalNs(name)}

\* the vcluster workload controller (outside this program) changes the status
\* of the tenant's control-plane deployment while Create polls
EnvDeployment ==
    /\ crPc = "poll"
    /\ \E ns \in WatchedNamespaces(crCfg.Name, crCfg.Namespace) \cap hostNamespaces :
       \E d \in DeploymentStatuses \cup {Absent} :
        /\ hostDeployments[<<ns, crCfg.Name>>] # d
        /\ hostDeployments' = [hostDeployments EXCEPT ![<<ns, crCfg.Name>>] = d]
    /\ UNCHANGED <<config, calls, deployVars, phaseVars, hostNamespaces, hostCerts,
                   tenantApiUp, createVars, waitVars, scaleVars, moreVars>>

\* the tenant's control plane (outside this program) publishes its certs
\* secret and starts or stops answering while WaitForReady polls
EnvTenant ==
    /\ wPc = "poll"
    /\ \E c \in CertStates, up \in BOOLEAN :
        /\ c # "absent" => ConventionalNs(wName) \in hostNamespaces
        /\ <<c, up>> # <<hostCerts[wName], tenantApiUp[wName]>>
        /\ hostCerts' = [hostCerts EXCEPT ![wName] = c]
        /\ tenantApiUp' = [tenantApiUp EXCEPT ![wName] = up]
    /\ UNCHANGED <<config, calls, deployVars, phaseVars, hostNamespaces,
                   hostDeployments, createVars, waitVars, scaleVars, moreVars>>

(* ------------------------ vcluster manager ---------------------------- *)
\* Namespaces().Create: the answer of the host API
NamespacesCreate(namespaces, ns, fault) ==
    IF fault THEN "ServerError"
    ELSE IF ns \in namespaces THEN "AlreadyExists"
    ELSE "nil"

\* NamespaceStepFails with the error of Namespaces().Create dropped
NamespaceStepFailsNever(answer) == FALSE

\* NamespaceStepFails without the IsAlreadyExists exemption
NamespaceStepFailsOnAnyError(answer) == answer # "nil"

\* `err != nil && !apierrors.IsAlreadyExists(err)`
NamespaceStepFails(answer) == answer # "nil" /\ answer # "AlreadyExists"

\* Create, step 1: ensure the host namespace exists
CreateNamespace ==
    /\ crPc = "ns"
    /\ \E fault \in BOOLEAN, ctxEnds \in BOOLEAN :
        LET answer == IF ctxEnds THEN "context"
                      ELSE NamespacesCreate(hostNamespaces, crCfg.Namespace, fault) IN
        /\ crNsResult' = answer
        /\ ctxErr' = IF ctxEnds THEN "context" ELSE ctxErr
        /\ hostNamespaces' = IF answer = "nil" THEN hostNamespaces \cup {crCfg.Namespace}
                             ELSE hostNamespaces
        /\ IF NamespaceStepFails(answer)
             THEN /\ crErr' = Err("VCluster", <<"failed to create host namespace",
                                               crCfg.Namespace, crCfg.Name>>, answer)
                  /\ crPc' = "ret"
             ELSE /\ crPc' = "apply"
                  /\ UNCHANGED crErr
    /\ UNCHANGED <<config, calls, deployVars, phaseVars, hostDeployments, hostCerts,
                   tenantApiUp, crCfg, crCaller, crPolls, crSeen, waitVars, scaleVars,
                   hostTerminating, deleteVars, pureVars>>

\* Create, step 2: the placeholder manifest application, a select on ctx.Done
CreateApply ==
    /\ crPc = "apply"
    /\ \E ctxEnds \in BOOLEAN :
        IF ctxEnds
          THEN /\ crErr' = Err("context", <<>>, "nil")
               /\ crPc' = "ret"
               /\ ctxErr' = "context"
               /\ UNCHANGED crPolls
          ELSE /\ crPc' = "poll"
               /\ crPolls' = 0
               /\ UNCHANGED <<crErr, ctxErr>>
    /\ UNCHANGED <<config, calls, deployVars, phaseVars, hostVars, crCfg, crCaller,
                   crNsResult, crSeen, waitVars, scaleVars, hostTerminating, deleteVars, pureVars>>

\* DeploymentReady without the ReadyReplicas > 0 test
DeploymentReadyAllowingZero(d) == d.ReadyReplicas >= d.Replicas

\* the readiness test of the poll condition
DeploymentReady(d) == d.ReadyReplicas > 0 /\ d.ReadyReplicas >= d.Replicas

\* the namespace and the name of the deployment Create polls
PolledDeployment(cfg) == <<cfg.Namespace, cfg.Name>>

\* PollErrorMessage formatted with the namespace where the name belongs
PollErrorMessageNamespaceOnly(cfg) ==
    <<"vcluster deployment", cfg.Namespace,
      "timed out or failed to become ready in host namespace", cfg.Namespace>>

\* the message of the error Create wraps a failed poll in
PollErrorMessage(cfg) ==
    <<"vcluster deployment", cfg.Name,
      "timed out or failed to become ready in host namespace", cfg.Namespace>>

\* CreatePollCondition of a create-only Create: a deployment that is already
\* there is an error
CreatePollConditionCreateOnly(d, fault) ==
    IF fault THEN [done |-> FALSE, err |-> "ServerError"]
    ELSE IF d.Exists THEN [done |-> FALSE, err |-> "AlreadyExists"]
    ELSE [done |-> FALSE, err |-> "nil"]

\* the condition function of Create's poll, as Go's (done, err) pair
CreatePollCondition(d, fault) ==
    IF fault THEN [done |-> FALSE, err |-> "ServerError"]
    ELSE IF ~d.Exists THEN [done |-> FALSE, err |-> "nil"]
    ELSE IF DeploymentReady(d) THEN [done |-> TRUE, err |-> "nil"]
    ELSE [done |-> FALSE, err |-> "nil"]

\* wait.PollUntilContextTimeout after one more attempt: the condition's error
\* ends it, so does done, and so does the deadline; "again" is another attempt
PollOutcome(c, attempts) ==
    IF c.err # "nil" THEN c.err
    ELSE IF c.done THEN "nil"
    ELSE IF attempts >= MaxPolls THEN "DeadlineExceeded"
    ELSE "again"

\* Create, step 3: one attempt of wait.PollUntilContextTimeout
CreatePoll ==
    /\ crPc = "poll"
    /\ \E fault \in BOOLEAN, ctxEnds \in BOOLEAN :
        LET d == hostDeployments[PolledDeployment(crCfg)]
            r == PollOutcome(CreatePollCondition(d, fault), crPolls + 1) IN
        IF ctxEnds
          THEN /\ crErr' = Err("VCluster", PollErrorMessage(crCfg), "context")
               /\ crPc' = "ret"
               /\ ctxErr' = "context"
               /\ UNCHANGED <<crPolls, crSeen>>
          ELSE /\ crSeen' = IF fault THEN crSeen ELSE d
               /\ UNCHANGED ctxErr
               /\ crPolls' = crPolls + 1
               /\ IF r = "again" THEN UNCHANGED <<crErr, crPc>>
                  ELSE /\ crPc' = "ret"
                       /\ crErr' = IF r = "nil" THEN NoError
                                   ELSE Err("VCluster", PollErrorMessage(crCfg), r)
    /\ UNCHANGED <<config, calls, deployVars, phaseVars, hostVars, crCfg, crCaller,
                   crNsResult, waitVars, scaleVars, hostTerminating, deleteVars, pureVars>>

\* vcluster_client.GetVClusterClient: the certs secret of the conventional
\* namespace must be there with a non-empty ca.crt
\* (the error it returns; NoError comes with the client). No other secret is read.
GetVClusterClient(certs, fault) ==
    IF fault THEN Err("VCluster", <<"failed to get vcluster certs secret">>, "ServerError")
    ELSE IF certs = "absent"
      THEN Err("VCluster", <<"failed to get vcluster certs secret">>, "NotFound")
    ELSE IF certs \in {"noCAKey", "emptyCA"}
      THEN Err("VCluster", <<"vcluster CA certificate not found in secret">>, "nil")
    ELSE IF certs = "badCA"
      THEN Err("VCluster", <<"failed to create client for vcluster">>, "InvalidCA")
    ELSE NoError

\* the message of the error WaitForReady wraps a failed poll in
WaitErrorMessage(name) ==
    <<"vcluster", name, "API server did not become accessible within timeout">>

\* WaitPollCondition done as soon as a client is resolved, the answer of
\* Namespaces().List ignored
WaitPollConditionWithoutList(certs, up, fault) ==
    IF GetVClusterClient(certs, fault) # NoError THEN [done |-> FALSE, err |-> "nil"]
    ELSE [done |-> TRUE, err |-> "nil"]

\* WaitPollCondition handing the error of GetVClusterClient to the poll
WaitPollConditionAbortsOnError(certs, up, fault) ==
    IF GetVClusterClient(certs, fault) # NoError
      THEN [done |-> FALSE, err |-> "NoClient"]
    ELSE IF up THEN [done |-> TRUE, err |-> "nil"]
    ELSE [done |-> FALSE, err |-> "nil"]

\* the condition function of WaitForReady's poll: every failure is a retry
WaitPollCondition(certs, up, fault) ==
    IF GetVClusterClient(certs, fault) # NoError THEN [done |-> FALSE, err |-> "nil"]
    ELSE IF up THEN [done |-> TRUE, err |-> "nil"]
    ELSE [done |-> FALSE, err |-> "nil"]

\* WaitForReady: one attempt of wait.PollUntilContextTimeout
WaitForReadyPoll ==
    /\ wPc = "poll"
    /\ \E fault \in BOOLEAN, ctxEnds \in BOOLEAN :
        LET r == PollOutcome(WaitPollCondition(hostCerts[wName], tenantApiUp[wName], fault),
                             wPolls + 1) IN
        IF ctxEnds
          THEN /\ wErr' = Err("VCluster", WaitErrorMessage(wName), "context")
               /\ wPc' = "ret"
               /\ ctxErr' = "context"
               /\ UNCHANGED <<wPolls, wSeen>>
          ELSE /\ wPolls' = wPolls + 1
               /\ UNCHANGED ctxErr
               /\ wSeen' = LET e == GetVClusterClient(hostCerts[wName], fault) IN
                           IF e # NoError
                             THEN (IF e.cause = "nil" THEN "noCA" ELSE e.cause)
                           ELSE IF tenantApiUp[wName] THEN "listed" ELSE "listFailed"
               /\ IF r = "again" THEN UNCHANGED <<wErr, wPc>>
                  ELSE /\ wPc' = "ret"
                       /\ wErr' = IF r = "nil" THEN NoError
                                  ELSE Err("VCluster", WaitErrorMessage(wName), r)
    /\ UNCHANGED <<config, calls, deployVars, phaseVars, hostVars, createVars,
                   wName, wCaller, scaleVars, hostTerminating, deleteVars, pureVars>>

(* ------------------------------ Delete -------------------------------- *)
\* Namespaces().Delete: the answer of the host API
NamespacesDelete(namespaces, ns, fault) ==
    IF fault THEN "ServerError"
    ELSE IF ns \notin namespaces THEN "NotFound"
    ELSE "nil"

\* DeleteStepFails without the IsNotFound exemption
DeleteStepFailsOnAnyError(answer) == answer # "nil"

\* `err != nil && !apierrors.IsNotFound(err)`
DeleteStepFails(answer) == answer # "nil" /\ answer # "NotFound"

\* Delete, step 1: request the deletion of the namespace vcluster-<name>; the
\* host API marks an existing namespace as terminating
DeleteNamespace ==
    /\ dlPc = "del"
    /\ \E fault \in BOOLEAN, ctxEnds \in BOOLEAN :
        LET ns == ConventionalNs(dlName)
            answer == IF ctxEnds THEN "context"
                      ELSE NamespacesDelete(hostNamespaces, ns, fault) IN
        /\ dlDelResult' = answer
        /\ ctxErr' = IF ctxEnds THEN "context" ELSE ctxErr
        /\ hostTerminating' = IF answer = "nil" THEN hostTerminating \cup {ns}
                              ELSE hostTerminating
        /\ IF DeleteStepFails(answer)
             THEN /\ dlErr' = Err("VCluster", <<"failed to delete host namespace",
                                               ns, dlName>>, answer)
                  /\ dlPc' = "ret"
             ELSE /\ dlPc' = "poll"
                  /\ UNCHANGED dlErr
    /\ UNCHANGED <<config, calls, deployVars, phaseVars, hostVars, createVars, waitVars,
                   scaleVars, dlName, dlPolls, dlSeen, pureVars>>

\* the namespace controller (outside this program) completes the deletion of
\* the namespace Delete is waiting for, and with it of everything inside
EnvNamespace ==
    /\ dlPc = "poll"
    /\ LET ns == ConventionalNs(dlName) IN
        /\ ns \in hostTerminating
        /\ hostTerminating' = hostTerminating \ {ns}
        /\ hostNamespaces' = hostNamespaces \ {ns}
        /\ hostDeployments' = [k \in DeploymentKeys |->
                                 IF k[1] = ns THEN Absent ELSE hostDeployments[k]]
        /\ hostCerts' = [hostCerts EXCEPT ![dlName] = "absent"]
        /\ tenantApiUp' = [tenantApiUp EXCEPT ![dlName] = FALSE]
    /\ UNCHANGED <<config, calls, deployVars, phaseVars, createVars, waitVars, scaleVars,
                   deleteVars, ctxErr, pureVars>>

\* the message of the error Delete wraps a failed poll in
DeleteErrorMessage(name) ==
    <<"host namespace", ConventionalNs(name), "for vcluster", name,
      "did not fully delete within timeout">>

\* DeletePollCondition taking a namespace that is still there for gone
DeletePollConditionAlwaysDone(exists, fault) ==
    IF fault THEN [done |-> FALSE, err |-> "ServerError"]
    ELSE [done |-> TRUE, err |-> "nil"]

\* the condition function of Delete's poll, as Go's (done, err) pair
DeletePollCondition(exists, fault) ==
    IF fault THEN [done |-> FALSE, err |-> "ServerError"]
    ELSE IF ~exists THEN [done |-> TRUE, err |-> "nil"]
    ELSE [done |-> FALSE, err |-> "nil"]

\* Delete, step 2: one attempt of wait.PollUntilContextTimeout
DeletePoll ==
    /\ dlPc = "poll"
    /\ \E fault \in BOOLEAN, ctxEnds \in BOOLEAN :
        LET exists == ConventionalNs(dlName) \in hostNamespaces
            r == PollOutcome(DeletePollCondition(exists, fault), dlPolls + 1) IN
        IF ctxEnds
          THEN /\ dlErr' = Err("VCluster", DeleteErrorMessage(dlName), "context")
               /\ dlPc' = "ret"
               /\ ctxErr' = "context"
               /\ UNCHANGED <<dlPolls, dlSeen>>
          ELSE /\ dlPolls' = dlPolls + 1
               /\ dlSeen' = IF fault THEN "ServerError"
                            ELSE IF exists THEN "exists" ELSE "NotFound"
               /\ UNCHANGED ctxErr
               /\ IF r = "again" THEN UNCHANGED <<dlErr, dlPc>>
                  ELSE /\ dlPc' = "ret"
                       /\ dlErr' = IF r = "nil" THEN NoError
                                   ELSE Err("VCluster", DeleteErrorMessage(dlName), r)
    /\ UNCHANGED <<config, calls, deployVars, phaseVars, hostVars, createVars, waitVars,
                   scaleVars, hostTerminating, dlName, dlDelResult, pureVars>>

(* --------------- VClusterDeployPhase.Run, the range loop --------------- *)
\* CreateFailed with the error of Create dropped
CreateFailedNever(err) == FALSE

\* `err := vclusterManager.Create(...); if err != nil { return ... }`
CreateFailed(err) == err # NoError

\* an iteration starts: the range picks a key it has not visited (Go's map
\* order is not specified) and Run calls vclusterManager.Create
VClusterPhaseCreate ==
    /\ vpPc = "loop"
    /\ crPc = "idle"
    /\ \E name \in vpRemaining :
        /\ vpCur' = name
        /\ vpRemaining' = vpRemaining \ {name}
        /\ crCfg' = config.VClusters[name]
        /\ calls' = Append(calls, Call("Create.call", name, TRUE))
    /\ vpPc' = "create"
    /\ crPc' = "ns"
    /\ crCaller' = "phase"
    /\ crNsResult' = "none" /\ crPolls' = 0 /\ crSeen' = Absent /\ crErr' = Pending
    /\ UNCHANGED <<config, deployVars, vpClient, vpCaller, vpErr, hostVars, waitVars, scaleVars, moreVars>>

\* Create has returned: on an error Run returns, else it calls WaitForReady
\* with the map key
VClusterPhaseWait ==
    /\ vpPc = "create"
    /\ crPc = "ret"
    /\ crCaller = "phase"
    /\ crPc' = "idle"
    /\ calls' = IF CreateFailed(crErr)
                 THEN Append(calls, Call("Create", vpCur, crErr = NoError))
                 ELSE calls \o <<Call("Create", vpCur, crErr = NoError),
                                 Call("WaitForReady.call", vpCur, TRUE)>>
    /\ IF CreateFailed(crErr)
         THEN /\ vpErr' = Err("VCluster", <<"failed to deploy vcluster", vpCur>>, crErr.type)
              /\ vpPc' = "ret"
              /\ UNCHANGED <<wPc, wName, wCaller, wErr>>
         ELSE /\ vpPc' = "wait"
              /\ wPc' = "poll" /\ wName' = vpCur /\ wCaller' = "phase"
              /\ wErr' = Pending
              /\ UNCHANGED vpErr
    /\ UNCHANGED <<wPolls, wSeen>>
    /\ crNsResult' = "none" /\ crPolls' = 0 /\ crSeen' = Absent
    /\ UNCHANGED <<config, deployVars, vpClient, vpCaller, vpRemaining, vpCur, hostVars,
                   crCfg, crCaller, crErr, scaleVars, moreVars>>

\* WaitForReady has returned: on an error Run returns, else the iteration
\* ends, and Run returns nil after the last one
VClusterPhaseNext ==
    /\ vpPc = "wait"
    /\ wPc = "ret"
    /\ wCaller = "phase"
    /\ wPc' = "idle"
    /\ calls' = Append(calls, Call("WaitForReady", vpCur, wErr = NoError))
    /\ IF Failed(wErr)
         THEN /\ vpErr' = Err("VCluster", <<"vcluster", vpCur, "did not become ready">>, wErr.type)
              /\ vpPc' = "ret"
         ELSE IF vpRemaining = {}
         THEN vpErr' = NoError /\ vpPc' = "ret"
         ELSE vpPc' = "loop" /\ UNCHANGED vpErr
    /\ wPolls' = 0 /\ wSeen' = "none"
    /\ UNCHANGED <<config, deployVars, vpClient, vpCaller, vpRemaining, vpCur, hostVars,
                   createVars, wName, wCaller, wErr, scaleVars, moreVars>>

\* Run is called on its own, with a host client or without one
VClusterPhaseRun ==
    /\ vpPc = "idle"
    /\ \E c \in {NilClient, ValidClient} : vpClient' = c
    /\ vpPc' = "entry"
    /\ vpCaller' = "direct"
    /\ calls' = Append(calls, Call("VClusterDeploy.call", "cluster", TRUE))
    /\ UNCHANGED <<config, deployVars, vpRemaining, vpCur, vpErr, managerVars, scaleVars, moreVars>>

\* Run has returned to its caller
VClusterPhaseReturn ==
    /\ vpPc = "ret"
    /\ vpCaller = "direct"
    /\ vpPc' = "done"
    /\ UNCHANGED <<config, calls, deployVars, vpClient, vpCaller, vpRemaining, vpCur,
                   vpErr, managerVars, scaleVars, moreVars>>

(* --------------------------- Deploy run -------------------------------- *)
InitDeploy ==
    /\ config \in [Nodes : NodeLists(1, MaxNodes, MaxNodes), VClusters : VClusterMaps]
    /\ calls = <<>>
    /\ dPhase = 0 /\ dNode = 0 /\ deployErr = Pending
    /\ vpPc = "idle" /\ vpClient = NilClient /\ vpCaller = "none"
    /\ vpRemaining = {} /\ vpCur = "none" /\ vpErr = Pending
    /\ InitHost({})
    /\ InitManager
    /\ InitScale
    /\ InitDelete
    /\ InitPure

NextDeploy ==
    \/ DeployStart
    \/ DeployNodePhase
    \/ DeployK8sInstall
    \/ DeployVClusterDeploy
    \/ VClusterPhaseEntry
    \/ DeployReturn

SpecDeploy == InitDeploy /\ [][NextDeploy]_vars

(* ----------------------- vcluster phase run ---------------------------- *)
InitPhase ==
    /\ config \in [Nodes : {<<>>}, VClusters : VClusterMaps]
    /\ calls = <<>>
    /\ dPhase = 0 /\ dNode = 0 /\ deployErr = Pending
    /\ vpPc = "idle" /\ vpClient = NilClient /\ vpCaller = "none"
    /\ vpRemaining = {} /\ vpCur = "none" /\ vpErr = Pending
    /\ InitHost({})
    /\ InitManager
    /\ InitScale
    /\ InitDelete
    /\ InitPure

NextPhase ==
    \/ VClusterPhaseRun
    \/ VClusterPhaseEntry
    \/ VClusterPhaseCreate
    \/ CreateNamespace
    \/ CreateApply
    \/ CreatePoll
    \/ VClusterPhaseWait
    \/ WaitForReadyPoll
    \/ VClusterPhaseNext
    \/ VClusterPhaseReturn
    \/ EnvDeployment
    \/ EnvTenant

SpecPhase == InitPhase /\ [][NextPhase]_vars

(* ------------------- vcluster manager, called directly ---------------- *)
ManagerCallOps == {"Create.call", "WaitForReady.call", "Delete.call"}
OpsStarted == Cardinality({i \in DOMAIN calls : calls[i].op \in ManagerCallOps})
ManagerIdle == crPc = "idle" /\ wPc = "idle" /\ dlPc = "idle"

\* Create is called with one of the configured VClusterConfigs
CreateCall ==
    /\ ManagerIdle
    /\ OpsStarted < MaxOps
    /\ \E name \in DOMAIN config.VClusters :
        /\ crCfg' = config.VClusters[name]
        /\ calls' = Append(calls, Call("Create.call", name, TRUE))
    /\ crPc' = "ns"
    /\ crCaller' = "direct"
    /\ crNsResult' = "none" /\ crPolls' = 0 /\ crSeen' = Absent /\ crErr' = Pending
    /\ ctxErr' = "nil"
    /\ UNCHANGED <<config, deployVars, phaseVars, hostVars, waitVars, scaleVars,
                   hostTerminating, deleteVars, pureVars>>

\* Create has returned to its caller: the error is the caller's, the locals
\* of the call are gone
CreateReturn ==
    /\ crPc = "ret"
    /\ crCaller = "direct"
    /\ crPc' = "idle"
    /\ calls' = Append(calls, Call("Create", crCfg.Name, crErr = NoError))
    /\ crNsResult' = "none" /\ crPolls' = 0 /\ crSeen' = Absent
    /\ crCfg' = [Name |-> "none", Namespace |-> "none"] /\ crErr' = Pending
    /\ ctxErr' = "nil"
    /\ UNCHANGED <<config, deployVars, phaseVars, hostVars, crCaller,
                   waitVars, scaleVars, hostTerminating, deleteVars, pureVars>>

\* WaitForReady is called with a tenant name
WaitForReadyCall ==
    /\ ManagerIdle
    /\ OpsStarted < MaxOps
    /\ \E name \in DOMAIN config.VClusters :
        /\ wName' = name
        /\ calls' = Append(calls, Call("WaitForReady.call", name, TRUE))
    /\ wPc' = "poll"
    /\ wCaller' = "direct"
    /\ wPolls' = 0 /\ wSeen' = "none" /\ wErr' = Pending
    /\ ctxErr' = "nil"
    /\ UNCHANGED <<config, deployVars, phaseVars, hostVars, createVars, scaleVars,
                   hostTerminating, deleteVars, pureVars>>

\* WaitForReady has returned to its caller
WaitForReadyReturn ==
    /\ wPc = "ret"
    /\ wCaller = "direct"
    /\ wPc' = "idle"
    /\ calls' = Append(calls, Call("WaitForReady", wName, wErr = NoError))
    /\ wPolls' = 0 /\ wSeen' = "none"
    /\ wName' = "none" /\ wErr' = Pending
    /\ ctxErr' = "nil"
    /\ UNCHANGED <<config, deployVars, phaseVars, hostVars, createVars, wCaller,
                   scaleVars, hostTerminating, deleteVars, pureVars>>

\* Delete is called with the name of a configured tenant
DeleteCall ==
    /\ ManagerIdle
    /\ OpsStarted < MaxOps
    /\ \E name \in DOMAIN config.VClusters :
        /\ dlName' = name
        /\ calls' = Append(calls, Call("Delete.call", name, TRUE))
    /\ dlPc' = "del"
    /\ dlDelResult' = "none" /\ dlPolls' = 0 /\ dlSeen' = "none" /\ dlErr' = Pending
    /\ ctxErr' = "nil"
    /\ UNCHANGED <<config, deployVars, phaseVars, hostVars, createVars, waitVars,
                   scaleVars, hostTerminating, pureVars>>

\* Delete has returned to its caller
DeleteReturn ==
    /\ dlPc = "ret"
    /\ dlPc' = "idle"
    /\ calls' = Append(calls, Call("Delete", dlName, dlErr = NoError))
    /\ dlDelResult' = "none" /\ dlPolls' = 0 /\ dlSeen' = "none"
    /\ dlName' = "none" /\ dlErr' = Pending
    /\ ctxErr' = "nil"
    /\ UNCHANGED <<config, deployVars, phaseVars, hostVars, createVars, waitVars,
                   scaleVars, hostTerminating, pureVars>>

\* one tenant is configured; the host cluster the manager is given may
\* already hold namespaces
InitVCluster ==
    /\ config \in { c \in [Nodes : {<<>>}, VClusters : VClusterMaps] :
                       Cardinality(DOMAIN c.VClusters) = 1 }
    /\ calls = <<>>
    /\ dPhase = 0 /\ dNode = 0 /\ deployErr = Pending
    /\ vpPc = "idle" /\ vpClient = NilClient /\ vpCaller = "none"
    /\ vpRemaining = {} /\ vpCur = "none" /\ vpErr = Pending
    /\ \E pre \in SUBSET NamespaceNames :
        /\ \A t \in DOMAIN config.VClusters :
              pre \subseteq WatchedNamespaces(t, config.VClusters[t].Namespace)
        /\ InitHost(pre)
    /\ InitManager
    /\ InitScale
    /\ InitDelete
    /\ InitPure

NextVCluster ==
    \/ CreateCall
    \/ CreateNamespace
    \/ CreateApply
    \/ CreatePoll
    \/ CreateReturn
    \/ WaitForReadyCall
    \/ WaitForReadyPoll
    \/ WaitForReadyReturn
    \/ DeleteCall
    \/ DeleteNamespace
    \/ DeletePoll
    \/ DeleteReturn
    \/ EnvDeployment
    \/ EnvTenant
    \/ EnvNamespace

SpecVCluster == InitVCluster /\ [][NextVCluster]_vars

\* WaitForReady on its own; the poll runs its condition at every interval, so
\* an attempt that can be made is made
NextWait ==
    \/ WaitForReadyCall
    \/ WaitForReadyPoll
    \/ WaitForReadyReturn
    \/ EnvTenant

SpecWaitLive == InitVCluster /\ [][NextWait]_vars /\ WF_vars(WaitForReadyPoll)

(* ------------------------- scale run ---------------------------------- *)
\* a validated configuration: at least one node has the master role
InitScaleRun ==
    /\ config \in { c \in [Nodes : NodeLists(1, MaxNodes, MaxNodes), VClusters : {<<>>}] :
                       HasMaster(c.Nodes) }
    /\ calls = <<>>
    /\ dPhase = 0 /\ dNode = 0 /\ deployErr = Pending
    /\ vpPc = "idle" /\ vpClient = NilClient /\ vpCaller = "none"
    /\ vpRemaining = {} /\ vpCur = "none" /\ vpErr = Pending
    /\ InitHost({})
    /\ InitManager
    /\ InitScale
    /\ InitDelete
    /\ InitPure

NextScale ==
    \/ ScaleCall
    \/ ScaleAddNode
    \/ ScaleRemoveNode

SpecScale == InitScaleRun /\ [][NextScale]_vars

(* ------------------------ functions on their own ---------------------- *)
\* nothing is deployed, no manager call and no scale run is under way
InitNothingRunning ==
    /\ config = [Nodes |-> <<>>, VClusters |-> <<>>]
    /\ calls = <<>>
    /\ dPhase = 0 /\ dNode = 0 /\ deployErr = Pending
    /\ vpPc = "idle" /\ vpClient = NilClient /\ vpCaller = "none"
    /\ vpRemaining = {} /\ vpCur = "none" /\ vpErr = Pending
    /\ InitHost({})
    /\ InitManager
    /\ InitScale
    /\ InitDelete

\* what GetVClusterClient is called with, and what the tenant's host namespace
\* holds at that moment
ResolverInputs ==
    [name : TenantNames, certs : SecretContents, token : TokenStates, fault : BOOLEAN]

\* a call of vcluster_client.GetVClusterClient
ResolveClient ==
    /\ rsOut = Pending
    /\ rsOut' = GetVClusterClient(rsIn.certs, rsIn.fault)
    /\ UNCHANGED <<config, calls, deployVars, phaseVars, hostVars, createVars, waitVars,
                   scaleVars, hostTerminating, deleteVars, ctxErr, rsIn, hcResults,
                   hcOverall, extVars>>

InitResolver ==
    /\ InitNothingRunning
    /\ rsIn \in ResolverInputs
    /\ rsOut = Pending
    /\ hcResults = <<>> /\ hcOverall = "none"
    /\ InitExt

NextResolver == ResolveClient

SpecResolver == InitResolver /\ [][NextResolver]_vars

\* the Status strings a HealthCheckResult carries; determineOverallStatus
\* compares against "Unhealthy" and "Degraded" only
HealthStatuses == {"Healthy", "Degraded", "Unhealthy", "Unknown"}
ResultLists == UNION { [1..n -> HealthStatuses] : n \in 0..MaxChecks }

\* the range loop of determineOverallStatus from index i on
RECURSIVE ScanResults(_, _, _)
ScanResults(results, i, hasDegraded) ==
    IF i > Len(results) THEN (IF hasDegraded THEN "Degraded" ELSE "Healthy")
    ELSE IF results[i] = "Unhealthy" THEN "Unhealthy"
    ELSE ScanResults(results, i + 1, hasDegraded \/ results[i] = "Degraded")

\* determineOverallStatus returning at the first result that is not Healthy
determineOverallStatusFirstWins(results) ==
    LET bad == {i \in DOMAIN results : results[i] \in {"Unhealthy", "Degraded"}} IN
    IF bad = {} THEN "Healthy"
    ELSE results[CHOOSE i \in bad : \A j \in bad : i <= j]

\* OverallHealthStatus.Status as determineOverallStatus computes it
determineOverallStatus(results) == ScanResults(results, 1, FALSE)

\* a call of determineOverallStatus
DetermineOverallStatus ==
    /\ hcOverall = "none"
    /\ hcOverall' = determineOverallStatus(hcResults)
    /\ UNCHANGED <<config, calls, deployVars, phaseVars, hostVars, createVars, waitVars,
                   scaleVars, hostTerminating, deleteVars, ctxErr, rsIn, rsOut, hcResults,
                   extVars>>

InitHealth ==
    /\ InitNothingRunning
    /\ rsIn = "none" /\ rsOut = Pending
    /\ hcResults \in ResultLists
    /\ hcOverall = "none"
    /\ InitExt

NextHealth == DetermineOverallStatus

SpecHealth == InitHealth /\ [][NextHealth]_vars

(* ------------------- healthz: GetOverallStatus ------------------------ *)
\* everything the operations below leave alone
coreVars == <<config, calls, deployVars, phaseVars, hostVars, createVars, waitVars,
              scaleVars, hostTerminating, deleteVars, ctxErr, rsIn, rsOut, hcResults,
              hcOverall>>

InitCoreIdle ==
    /\ InitNothingRunning
    /\ rsIn = "none" /\ rsOut = Pending
    /\ hcResults = <<>> /\ hcOverall = "none"

ComponentNames == {"apiserver", "etcd", "scheduler"}

\* the keys of config.VClusters the cluster checks are run with
CheckedTenants == TenantNames \cup {"biz-c"}

\* a HealthCheckResult no checker has written: the zero value make() fills in
ZeroResult == [Name |-> "", Status |-> ""]

\* the orders a range over the componentCheckers map can copy them in
Orderings(S) ==
    {f \in [1..Cardinality(S) -> S] : \A i, j \in DOMAIN f : i # j => f[i] # f[j]}

\* the Status column of a results slice
StatusesOf(results) == [i \in DOMAIN results |-> results[i].Status]

\* RegisterComponentCheck: stores the checker under its name, at any time
\* m.mu.Lock() going through although runComponentChecks holds the read lock
MutexFreeAlways == TRUE

\* m.mu.Lock() is granted: runComponentChecks is not inside its RLock section
MutexFree == goPc # "copy"

RegisterComponentCheck ==
    /\ MutexFree
    /\ \E name \in ComponentNames \ componentCheckers :
         componentCheckers' = componentCheckers \cup {name}
    /\ UNCHANGED <<coreVars, checksVars, recoveryVars, validateVars, cliVars, goPc, goSnapshot, goNext, goTask, goResults, goOverall, goWaited>>

\* GetOverallStatus entering runComponentChecks: m.mu.RLock() and an empty
\* checkers slice
GetOverallStatusCall ==
    /\ goPc = "idle"
    /\ goSnapshot' = <<>>
    /\ goPc' = "copy"
    /\ UNCHANGED <<coreVars, checksVars, recoveryVars, validateVars, cliVars, componentCheckers, goNext, goTask, goResults, goOverall, goWaited>>

\* one iteration of `for _, checker := range m.componentCheckers` under the
\* read lock: a key not visited yet, in map order, is appended
CopyChecker ==
    /\ goPc = "copy"
    /\ \E name \in componentCheckers \ {goSnapshot[i] : i \in DOMAIN goSnapshot} :
         goSnapshot' = Append(goSnapshot, name)
    /\ UNCHANGED <<coreVars, checksVars, recoveryVars, validateVars, cliVars, componentCheckers, goPc, goNext, goTask, goResults, goOverall, goWaited>>

\* the map has been ranged over: m.mu.RUnlock(), and results is made with one
\* slot for each copied checker
CopyDone ==
    /\ goPc = "copy"
    /\ componentCheckers \subseteq {goSnapshot[i] : i \in DOMAIN goSnapshot}
    /\ goTask' = [i \in DOMAIN goSnapshot |-> "new"]
    /\ goResults' = [i \in DOMAIN goSnapshot |-> ZeroResult]
    /\ goNext' = 1
    /\ goWaited' = [i \in DOMAIN goSnapshot |-> 0]
    /\ goPc' = "spawn"
    /\ UNCHANGED <<coreVars, checksVars, recoveryVars, validateVars, cliVars, componentCheckers, goSnapshot, goOverall>>

\* one iteration of the spawning loop: wg.Add(1) and the go statement
SpawnCheck ==
    /\ goPc = "spawn"
    /\ goNext <= Len(goSnapshot)
    /\ goTask' = [goTask EXCEPT ![goNext] = "running"]
    /\ goNext' = goNext + 1
    /\ UNCHANGED <<coreVars, checksVars, recoveryVars, validateVars, cliVars, componentCheckers, goPc, goSnapshot, goResults, goOverall, goWaited>>

\* the loop is over: the caller goes on to wg.Wait()
SpawnDone ==
    /\ goPc = "spawn"
    /\ goNext > Len(goSnapshot)
    /\ goPc' = "wait"
    /\ UNCHANGED <<coreVars, checksVars, recoveryVars, validateVars, cliVars, componentCheckers, goSnapshot, goNext, goTask, goResults,
                   goOverall, goWaited>>

\* a spawned goroutine: results[index] = c.Check(checkCtx), then wg.Done()
RunCheck ==
    /\ \E i \in DOMAIN goTask :
         /\ goTask[i] = "running"
         /\ \E st \in HealthStatuses :
              goResults' = [goResults EXCEPT ![i] = [Name |-> goSnapshot[i], Status |-> st]]
         /\ goTask' = [goTask EXCEPT ![i] = "done"]
    /\ UNCHANGED <<coreVars, checksVars, recoveryVars, validateVars, cliVars, componentCheckers, goPc, goSnapshot, goNext, goOverall, goWaited>>

\* wg.Wait() returning although goroutines are still at work
WaitGroupOpenNeverBlocks == TRUE

\* wg.Wait() returns once every Add has met its Done
WaitGroupOpen == \A i \in DOMAIN goTask : goTask[i] = "done"

\* GetOverallStatus after runComponentChecks: the fold over results
GetOverallStatusReturn ==
    /\ goPc = "wait"
    /\ WaitGroupOpen
    /\ goOverall' = [Status |-> determineOverallStatus(StatusesOf(goResults)),
                     Results |-> goResults]
    /\ goPc' = "done"
    /\ UNCHANGED <<coreVars, checksVars, recoveryVars, validateVars, cliVars, componentCheckers, goSnapshot, goNext, goTask, goResults, goWaited>>

InitOverall ==
    /\ InitCoreIdle
    /\ IdleChecks
    /\ IdleRecovery
    /\ IdleValidate
    /\ IdleCli
    /\ componentCheckers \in SUBSET ComponentNames
    /\ goPc = "idle" /\ goSnapshot = <<>> /\ goNext = 0
    /\ goTask = <<>> /\ goResults = <<>> /\ goOverall = Pending /\ goWaited = <<>>

NextOverall ==
    \/ RegisterComponentCheck
    \/ GetOverallStatusCall
    \/ CopyChecker
    \/ CopyDone
    \/ SpawnCheck
    \/ SpawnDone
    \/ RunCheck
    \/ GetOverallStatusReturn

SpecOverall == InitOverall /\ [][NextOverall]_vars

(* ------------------- healthz: RunClusterChecks ------------------------ *)
\* the host steps of RunClusterChecks: component statuses, node statuses,
\* core deployments. Each only logs; none has a failing path.
HostChecks == <<"host-components", "host-nodes", "host-deployments">>

\* RunClusterChecks, steps 1 to 3
RunHostChecks ==
    /\ rcPc = "host"
    /\ rcChecked' = rcChecked \o [i \in DOMAIN HostChecks |-> [check |-> HostChecks[i], failed |-> FALSE]]
    /\ rcRemaining' = rcTenants
    /\ rcPc' = "tenants"
    /\ UNCHANGED <<coreVars, overallVars, recoveryVars, validateVars, cliVars, rcTenants, rcErrors, rcErr>>

\* what the check of one tenant appends to clusterCheckErrors: the error of
\* GetVClusterClient, or the failed List against the tenant's API server
TenantCheckError(name, certs, fault, up) ==
    LET getClientErr == GetVClusterClient(certs, fault) IN
    IF getClientErr # NoError
      THEN <<[msg |-> <<"failed to get client for vcluster", name>>, cause |-> getClientErr.cause]>>
    ELSE IF ~up
      THEN <<[msg |-> <<"vcluster", name, "API server is not healthy">>, cause |-> "ServerError"]>>
    ELSE <<>>

\* the range loop giving up at the first tenant whose check failed
KeysLeftStoppingOnFailure(remaining, name, failed) ==
    IF failed THEN {} ELSE remaining \ {name}

\* the keys the range over config.VClusters still has to visit after name:
\* a failed check is followed by continue, or by the end of the body
KeysLeft(remaining, name, failed) == remaining \ {name}

\* one iteration of the range over config.VClusters
CheckTenant ==
    /\ rcPc = "tenants"
    /\ \E name \in rcRemaining, certs \in SecretContents, fault \in BOOLEAN, up \in BOOLEAN :
         LET found == TenantCheckError(name, certs, fault, up) IN
         /\ rcErrors' = rcErrors \o found
         /\ rcChecked' = Append(rcChecked, [check |-> name, failed |-> found # <<>>])
         /\ rcRemaining' = KeysLeft(rcRemaining, name, found # <<>>)
    /\ UNCHANGED <<coreVars, overallVars, recoveryVars, validateVars, cliVars, rcPc, rcTenants, rcErr>>

\* the aggregation after the loop
RunClusterChecksReturn ==
    /\ rcPc = "tenants"
    /\ rcRemaining = {}
    /\ rcErr' = IF Len(rcErrors) > 0
                  THEN Err("System", <<"Cluster health checks failed">>, "nil")
                  ELSE NoError
    /\ rcPc' = "ret"
    /\ UNCHANGED <<coreVars, overallVars, recoveryVars, validateVars, cliVars, rcTenants, rcRemaining, rcChecked, rcErrors>>

InitChecks ==
    /\ InitCoreIdle
    /\ IdleOverall
    /\ IdleRecovery
    /\ IdleValidate
    /\ IdleCli
    /\ rcPc = "host"
    /\ rcTenants \in SUBSET CheckedTenants
    /\ rcRemaining = {}
    /\ rcChecked = <<>> /\ rcErrors = <<>> /\ rcErr = Pending

NextChecks ==
    \/ RunHostChecks
    \/ CheckTenant
    \/ RunClusterChecksReturn

SpecChecks == InitChecks /\ [][NextChecks]_vars

(* ----------------- lifecycle: backup and restore ---------------------- *)
Step(name, ok) == [step |-> name, ok |-> ok]

\* storage.BackupETCD: "Returns an error if the backup fails". Its remote
\* commands are still to be wired in; snapshotOk is their outcome.
BackupETCD(snapshotOk) ==
    IF snapshotOk THEN NoError
    ELSE Err("System", <<"failed to execute ETCD backup command">>, "ssh")

\* storage.RestoreETCD: not implemented, it returns that error on every call
RestoreETCD == Err("NotImplemented", <<"ETCD restoration not implemented yet">>, "nil")

\* BackupPlatform, step 1: the ETCD snapshot on the first master node
BackupPlatformEtcd ==
    /\ lcOp = "backup" /\ lcPc = "etcd"
    /\ IF ~lcCfg.ETCDBackup \/ ~HasMaster(lcCfg.Nodes)
         THEN \* disabled, or "No master nodes found in config": logged only
              /\ lcPc' = "config"
              /\ UNCHANGED <<lcSteps, lcErr>>
         ELSE \E snapshotOk \in BOOLEAN :
                LET err == BackupETCD(snapshotOk) IN
                IF Failed(err)
                  THEN /\ lcSteps' = Append(lcSteps, Step("etcd-snapshot", FALSE))
                       /\ lcErr' = Err("Reliability", <<"ETCD backup failed">>, err.type)
                       /\ lcPc' = "ret"
                  ELSE /\ lcSteps' = lcSteps \o <<Step("etcd-snapshot", TRUE),
                                                  Step("etcd-transfer", TRUE)>>
                       /\ lcPc' = "config"
                       /\ UNCHANGED lcErr
    /\ UNCHANGED <<coreVars, overallVars, checksVars, validateVars, cliVars, lcOp, lcCfg, lcLocation>>

\* BackupPlatform, step 2: the configuration files, and the return
BackupPlatformConfig ==
    /\ lcOp = "backup" /\ lcPc = "config"
    /\ lcSteps' = IF lcCfg.ConfigBackup
                    THEN lcSteps \o <<Step("config-files", TRUE), Step("config-transfer", TRUE)>>
                    ELSE lcSteps
    /\ lcErr' = NoError
    /\ lcPc' = "ret"
    /\ UNCHANGED <<coreVars, overallVars, checksVars, validateVars, cliVars, lcOp, lcCfg, lcLocation>>

\* RestorePlatform, steps 1 and 2: the target nodes are prepared and the
\* configuration files restored from backupLocation
RestorePlatformConfig ==
    /\ lcOp = "restore" /\ lcPc = "config"
    /\ lcSteps' = IF lcCfg.ConfigBackup
                    THEN lcSteps \o <<Step("prepare", TRUE), Step("config-restore", TRUE)>>
                    ELSE Append(lcSteps, Step("prepare", TRUE))
    /\ lcPc' = "etcd"
    /\ UNCHANGED <<coreVars, overallVars, checksVars, validateVars, cliVars, lcOp, lcCfg, lcLocation, lcErr>>

\* RestorePlatform, steps 3 to 5: the ETCD restoration on the first master
\* node, the verification and the reconciliation, and the return
RestorePlatformEtcd ==
    /\ lcOp = "restore" /\ lcPc = "etcd"
    /\ IF lcCfg.ETCDBackup /\ HasMaster(lcCfg.Nodes)
         THEN LET err == RestoreETCD IN
              IF Failed(err)
                THEN /\ lcSteps' = lcSteps \o <<Step("etcd-transfer", TRUE),
                                                Step("etcd-restore", FALSE)>>
                     /\ lcErr' = Err("Reliability", <<"ETCD restoration failed">>, err.type)
                ELSE /\ lcSteps' = lcSteps \o <<Step("etcd-transfer", TRUE),
                                                Step("etcd-restore", TRUE),
                                                Step("verify", TRUE), Step("reconcile", TRUE)>>
                     /\ lcErr' = NoError
         ELSE \* disabled, or "No master nodes found in config": logged only
              /\ lcSteps' = lcSteps \o <<Step("verify", TRUE), Step("reconcile", TRUE)>>
              /\ lcErr' = NoError
    /\ lcPc' = "ret"
    /\ UNCHANGED <<coreVars, overallVars, checksVars, validateVars, cliVars, lcOp, lcCfg, lcLocation>>

\* the backupLocation values restoreCmd can pass on: args[0] as typed
BackupLocations == {"", "s3://backups/2024-05-01"}

InitRecovery ==
    /\ InitCoreIdle
    /\ IdleOverall
    /\ IdleChecks
    /\ IdleValidate
    /\ IdleCli
    /\ lcCfg \in [ETCDBackup : BOOLEAN, ConfigBackup : BOOLEAN,
                  Nodes : NodeLists(1, MaxNodes, MaxNodes)]
    /\ \/ lcOp = "backup" /\ lcPc = "etcd" /\ lcLocation = ""
       \/ lcOp = "restore" /\ lcPc = "config" /\ lcLocation \in BackupLocations
    /\ lcSteps = <<>> /\ lcErr = Pending

NextRecovery ==
    \/ BackupPlatformEtcd
    \/ BackupPlatformConfig
    \/ RestorePlatformConfig
    \/ RestorePlatformEtcd

SpecRecovery == InitRecovery /\ [][NextRecovery]_vars

(* ------------------------ config validation --------------------------- *)
AppNames == {"web", "db"}
\* the vcluster names an application may target: the tenants and a stray one
TargetNames == TenantNames \cup {"biz-x"}

\* model.PlatformConfig as ValidateConfig reads it. The sections whose own
\* validators are not followed here carry the outcome of that validator.
PlatformConfigs ==
    [ MetadataName : {"", "chasi-bod"},
      OutputOk : BOOLEAN, ClusterOk : BOOLEAN, SysctlOk : BOOLEAN, DFXOk : BOOLEAN,
      VClusters : UNION { [ks -> [Ok : BOOLEAN]] : ks \in SUBSET TenantNames },
      Applications : UNION { [as -> [VClusterName : TargetNames, Ok : BOOLEAN]] :
                               as \in SUBSET AppNames } ]

\* an error of the errors package, and one wrapped by fmt.Errorf("...: %w")
ValidationError(msg) == Err("Validation", msg, "nil")
Wrapped(msg, err) == Err("fmt", msg, err.type)

\* the range over config.VClusters from position i of the visiting order
RECURSIVE ValidateVClusters(_, _, _)
ValidateVClusters(cfg, order, i) ==
    IF i > Len(order) THEN NoError
    ELSE IF ~cfg.VClusters[order[i]].Ok
      THEN Wrapped(<<"invalid vcluster configuration", order[i]>>,
                   ValidationError(<<"vcluster", order[i]>>))
    ELSE ValidateVClusters(cfg, order, i + 1)

\* TargetExists taking every target for a key of config.VClusters
TargetExistsAlways(cfg, target) == TRUE

\* `_, exists := config.VClusters[appCfg.VClusterName]`
TargetExists(cfg, target) == target \in DOMAIN cfg.VClusters

\* the range over config.Applications from position i of the visiting order
RECURSIVE ValidateApplications(_, _, _)
ValidateApplications(cfg, order, i) ==
    IF i > Len(order) THEN NoError
    ELSE IF ~TargetExists(cfg, cfg.Applications[order[i]].VClusterName)
      THEN ValidationError(<<"application", order[i], "targets non-existent vcluster",
                             cfg.Applications[order[i]].VClusterName>>)
    ELSE IF ~cfg.Applications[order[i]].Ok
      THEN Wrapped(<<"invalid application configuration", order[i]>>,
                   ValidationError(<<"application", order[i]>>))
    ELSE ValidateApplications(cfg, order, i + 1)

\* validator.ValidateConfig; vcOrder and appOrder are the orders in which the
\* two maps are ranged over
ValidateConfig(cfg, vcOrder, appOrder) ==
    IF cfg.MetadataName = "" THEN ValidationError(<<"metadata.name is required">>)
    ELSE IF ~cfg.OutputOk
      THEN Wrapped(<<"invalid output configuration">>, ValidationError(<<"output">>))
    ELSE IF ~cfg.ClusterOk
      THEN Wrapped(<<"invalid cluster configuration">>, ValidationError(<<"cluster">>))
    ELSE IF ~cfg.SysctlOk
      THEN Wrapped(<<"invalid global sysctl configuration">>, ValidationError(<<"sysctl">>))
    ELSE IF Failed(ValidateVClusters(cfg, vcOrder, 1))
      THEN ValidateVClusters(cfg, vcOrder, 1)
    ELSE IF Failed(ValidateApplications(cfg, appOrder, 1))
      THEN ValidateApplications(cfg, appOrder, 1)
    ELSE IF ~cfg.DFXOk
      THEN Wrapped(<<"invalid dfx configuration">>, ValidationError(<<"dfx">>))
    ELSE NoError

\* a call of ValidateConfig
Validate ==
    /\ vaOut = Pending
    /\ \E vcOrder \in Orderings(DOMAIN vaCfg.VClusters),
          appOrder \in Orderings(DOMAIN vaCfg.Applications) :
         vaOut' = ValidateConfig(vaCfg, vcOrder, appOrder)
    /\ UNCHANGED <<coreVars, overallVars, checksVars, recoveryVars, cliVars, vaCfg, loopVars>>

InitValidate ==
    /\ InitCoreIdle
    /\ IdleOverall
    /\ IdleChecks
    /\ IdleRecovery
    /\ IdleCli
    /\ vaCfg \in PlatformConfigs
    /\ vaOut = Pending
    /\ IdleLoop

NextValidate == Validate

SpecValidate == InitValidate /\ [][NextValidate]_vars

(* ------------------------------ CLI ----------------------------------- *)
\* the commands that call the deployer, the lifecycle manager or the
\* vcluster manager
CliCommands ==
    {"deploy", "upgrade", "scale", "backup", "restore", "vcluster create", "vcluster delete"}

\* the config files the commands are run with: any metadata, cluster section
\* and vcluster map; no applications
CliConfigs ==
    {c \in PlatformConfigs :
       c.OutputOk /\ c.SysctlOk /\ c.DFXOk /\ DOMAIN c.Applications = {}}

\* the commands whose RunE calls validator.ValidateConfig on the config of
\* configFilePath after loading it
ValidatesConfig(cmd) == cmd \in {"deploy", "upgrade", "scale", "backup", "restore"}

\* the commands whose RunE calls getHostK8sClient
GetsClient(cmd) == cmd # "deploy"

\* the commands that only warn when getHostK8sClient fails
ClientOptional(cmd) == cmd = "restore"

\* the call each command ends with
Operation(cmd) ==
    CASE cmd = "deploy" -> "Deploy"
      [] cmd = "upgrade" -> "UpgradePlatform"
      [] cmd = "scale" -> "ScaleHostCluster"
      [] cmd = "backup" -> "BackupPlatform"
      [] cmd = "restore" -> "RestorePlatform"
      [] cmd = "vcluster create" -> "Create"
      [] cmd = "vcluster delete" -> "Delete"

\* the configs that call is handed: upgrade passes currentConfig and
\* newConfig, vcluster create an entry of config.VClusters, vcluster delete
\* a name only
OperationConfigs(cmd, cfg, cur) ==
    CASE cmd = "upgrade" -> <<cur, cfg>>
      [] cmd = "vcluster delete" -> <<>>
      [] OTHER -> <<cfg>>

\* getHostK8sClient: kubeconfig loading is still to be written and the
\* function returns the not-implemented error next to a dummy client;
\* loaded = TRUE is the outcome its callers' success path is written for
GetHostK8sClient(loaded) ==
    IF loaded THEN NoError
    ELSE Err("NotImplemented", <<"getting Host Kubernetes client not implemented yet">>, "nil")

\* loader.LoadConfig of configFilePath (upgrade: of the current config first)
CliLoad ==
    /\ cliPc = "load"
    /\ \E readable \in BOOLEAN :
         IF ~readable
           THEN /\ cliErr' = Wrapped(<<"failed to load config">>,
                                     Err("NotFound", <<"configuration file not found">>, "nil"))
                /\ cliPc' = "ret"
           ELSE /\ cliPc' = IF ValidatesConfig(cliCmd) THEN "validate" ELSE "lookup"
                /\ UNCHANGED cliErr
    /\ UNCHANGED <<coreVars, overallVars, checksVars, recoveryVars, validateVars,
                   cliCmd, cliCfg, cliCur, cliName, cliPassed, cliOps>>

\* validator.ValidateConfig(config), and the return on its error
CliValidate ==
    /\ cliPc = "validate"
    /\ \E vcOrder \in Orderings(DOMAIN cliCfg.VClusters) :
         LET err == ValidateConfig(cliCfg, vcOrder, <<>>) IN
         IF Failed(err)
           THEN /\ cliErr' = Wrapped(<<"config validation failed">>, err)
                /\ cliPc' = "ret"
                /\ UNCHANGED cliPassed
           ELSE /\ cliPassed' = cliPassed \cup {cliCfg}
                /\ cliPc' = IF GetsClient(cliCmd) THEN "client" ELSE "op"
                /\ UNCHANGED cliErr
    /\ UNCHANGED <<coreVars, overallVars, checksVars, recoveryVars, validateVars,
                   cliCmd, cliCfg, cliCur, cliName, cliOps>>

\* vcluster create: `vclusterCfg, exists := config.VClusters[vclusterName]`
CliLookup ==
    /\ cliPc = "lookup"
    /\ IF cliName \in DOMAIN cliCfg.VClusters
         THEN cliPc' = "client" /\ UNCHANGED cliErr
         ELSE /\ cliErr' = Err("NotFound", <<"vcluster configuration", cliName,
                                            "not found in config file">>, "nil")
              /\ cliPc' = "ret"
    /\ UNCHANGED <<coreVars, overallVars, checksVars, recoveryVars, validateVars,
                   cliCmd, cliCfg, cliCur, cliName, cliPassed, cliOps>>

\* getHostK8sClient(), and what the command does with its error
CliGetClient ==
    /\ cliPc = "client"
    /\ \E loaded \in BOOLEAN :
         LET err == GetHostK8sClient(loaded) IN
         IF Failed(err) /\ ~ClientOptional(cliCmd)
           THEN /\ cliErr' = Wrapped(<<"failed to get host K8s client">>, err)
                /\ cliPc' = "ret"
           ELSE /\ cliPc' = "op"
                /\ UNCHANGED cliErr
    /\ UNCHANGED <<coreVars, overallVars, checksVars, recoveryVars, validateVars,
                   cliCmd, cliCfg, cliCur, cliName, cliPassed, cliOps>>

\* the call of the deployer, lifecycle manager or vcluster manager, and the
\* return of RunE
CliOperate ==
    /\ cliPc = "op"
    /\ cliOps' = Append(cliOps, [op |-> Operation(cliCmd),
                                 configs |-> OperationConfigs(cliCmd, cliCfg, cliCur)])
    /\ \E done \in BOOLEAN :
         cliErr' = IF done THEN NoError
                   ELSE Wrapped(<<Operation(cliCmd), "failed">>, Err("System", <<>>, "nil"))
    /\ cliPc' = "ret"
    /\ UNCHANGED <<coreVars, overallVars, checksVars, recoveryVars, validateVars,
                   cliCmd, cliCfg, cliCur, cliName, cliPassed>>

InitCli ==
    /\ InitCoreIdle
    /\ IdleOverall
    /\ IdleChecks
    /\ IdleRecovery
    /\ IdleValidate
    /\ cliCmd \in CliCommands
    /\ cliCfg \in CliConfigs
    /\ cliCur \in (IF cliCmd = "upgrade" THEN CliConfigs ELSE {cliCfg})
    /\ cliName \in (IF cliCmd \in {"vcluster create", "vcluster delete"}
                      THEN TenantNames ELSE {"none"})
    /\ cliPc = (IF cliCmd = "vcluster delete" THEN "client" ELSE "load")
    /\ cliPassed = {} /\ cliOps = <<>> /\ cliErr = Pending

NextCli ==
    \/ CliLoad
    \/ CliValidate
    \/ CliLookup
    \/ CliGetClient
    \/ CliOperate

SpecCli == InitCli /\ [][NextCli]_vars

(* ------------------ validateApplicationConfig ------------------------- *)
\* model.ApplicationConfig as validateApplicationConfig reads it, with the map
\* key it is stored under: HelmChart and Kustomize are nil, incomplete or
\* complete; Manifests holds paths, "" among them
ManifestLists == UNION { [1..n -> {"", "app.yaml"}] : n \in 0..2 }
ApplicationConfigs ==
    [ Key : {"web"}, Name : {"", "web", "db"}, VClusterName : {"", "biz-a"},
      Type : {"general", "io-bound", "bogus"},
      HelmChart : {"nil", "incomplete", "ok"},
      Kustomize : {"nil", "noPath", "ok"},
      Manifests : ManifestLists ]

\* the manifestSources counter
ManifestSources(c) ==
    (IF c.HelmChart # "nil" THEN 1 ELSE 0) + (IF c.Kustomize # "nil" THEN 1 ELSE 0)
      + (IF Len(c.Manifests) > 0 THEN 1 ELSE 0)

\* TooManySources never objecting
TooManySourcesNever(n) == FALSE

\* `if manifestSources > 1`
TooManySources(n) == n > 1

OnlyOneMessage(name) ==
    <<"application", name, "only one of helmChart, kustomize, or manifests can be specified">>

validateApplicationConfig(name, c) ==
    IF c.Name = "" THEN ValidationError(<<"application name is required">>)
    ELSE IF c.Name # name
      THEN ValidationError(<<"application name in config must match map key", c.Name, name>>)
    ELSE IF c.VClusterName = ""
      THEN ValidationError(<<"application", name, "vclusterName is required">>)
    ELSE IF c.Type \notin {"general", "io-bound"}
      THEN ValidationError(<<"application", name, "invalid type", c.Type>>)
    ELSE IF c.HelmChart = "nil" /\ c.Kustomize = "nil" /\ Len(c.Manifests) = 0
      THEN ValidationError(<<"application", name,
                             "one of helmChart, kustomize, or manifests must be specified">>)
    ELSE IF c.HelmChart = "incomplete"
      THEN ValidationError(<<"application", name, "helmChart requires chart and releaseName">>)
    ELSE IF c.Kustomize = "noPath"
      THEN ValidationError(<<"application", name, "kustomize requires path">>)
    ELSE IF \E i \in DOMAIN c.Manifests : c.Manifests[i] = ""
      THEN ValidationError(<<"application", name, "manifest path cannot be empty">>)
    ELSE IF TooManySources(ManifestSources(c)) THEN ValidationError(OnlyOneMessage(name))
    ELSE NoError

\* a call of validateApplicationConfig
ValidateApplication ==
    /\ vaOut = Pending
    /\ vaOut' = validateApplicationConfig(vaCfg.Key, vaCfg)
    /\ UNCHANGED <<coreVars, overallVars, checksVars, recoveryVars, cliVars, vaCfg, loopVars>>

InitAppValidate ==
    /\ InitCoreIdle
    /\ IdleOverall /\ IdleChecks /\ IdleRecovery /\ IdleCli
    /\ vaCfg \in ApplicationConfigs
    /\ vaOut = Pending
    /\ IdleLoop

NextAppValidate == ValidateApplication

SpecAppValidate == InitAppValidate /\ [][NextAppValidate]_vars

(* ---------------------- validateNodeConfig ---------------------------- *)
\* addresses as strings of at most MaxAddrLen characters
AddrChars == {"a", "1", "-", ".", ":", "_"}
AddressStrings == UNION { [1..n -> AddrChars] : n \in 0..MaxAddrLen }

Letters == {"a"}
Digits == {"1"}
HexDigits == {"a", "1"}

\* the pieces of s between the occurrences of sep, as <<from, to>> index pairs
Pieces(s, sep) ==
    LET cuts == {0, Len(s) + 1} \cup {i \in DOMAIN s : s[i] = sep} IN
    {<<a + 1, b - 1>> : <<a, b>> \in
       {p \in cuts \X cuts : p[1] < p[2] /\ \A c \in cuts : ~(p[1] < c /\ c < p[2])}}

\* net.ParseIP on a dotted quad: four decimal fields of one to three digits
IsIPv4(s) ==
    /\ Cardinality({i \in DOMAIN s : s[i] = "."}) = 3
    /\ \A p \in Pieces(s, ".") :
         /\ p[2] - p[1] + 1 \in 1..3
         /\ \A i \in p[1]..p[2] : s[i] \in Digits

\* a run of groups of one to four hex digits separated by single colons, or
\* nothing
HexGroups(s) ==
    \/ s = <<>>
    \/ \A p \in Pieces(s, ":") :
         /\ p[2] - p[1] + 1 \in 1..4
         /\ \A i \in p[1]..p[2] : s[i] \in HexDigits

\* net.ParseIP on the colon form: eight groups, or fewer around one "::"
IsIPv6(s) ==
    \/ /\ Cardinality({i \in DOMAIN s : s[i] = ":"}) = 7
       /\ s # <<>> /\ HexGroups(s)
    \/ \E k \in 1..(Len(s) - 1) :
         /\ s[k] = ":" /\ s[k + 1] = ":"
         /\ HexGroups(SubSeq(s, 1, k - 1))
         /\ HexGroups(SubSeq(s, k + 2, Len(s)))
         /\ Cardinality({i \in DOMAIN s : s[i] = ":"}) <= 7

\* utils.IsValidIPAddress
IsValidIPAddress(s) == IsIPv4(s) \/ IsIPv6(s)

\* utils.IsValidHostname: 1 to 253 characters, each a letter, a digit, "-"
\* or ".", the first and the last not "-"
IsValidHostname(s) ==
    /\ Len(s) \in 1..253
    /\ \A i \in DOMAIN s : s[i] \in Letters \cup Digits \cup {"-", "."}
    /\ s[1] # "-" /\ s[Len(s)] # "-"

\* model.NodeConfig as validateNodeConfig reads it
ValidatedNodeConfigs ==
    [ Address : AddressStrings, User : {"", "root"},
      Password : {"", "secret"}, PrivateKey : {"", "id_rsa"},
      Port : {0, 70000}, Roles : {<<>>, <<"master">>, <<"bogus">>},
      SysctlOk : BOOLEAN, Disks : {"ok", "noDevice"} ]

\* CredentialsRefused refusing a config only when it has no credential
CredentialsRefusedWhenNone(password, key) ==
    IF password = "" /\ key = "" THEN "either password or privateKey is required for SSH"
    ELSE ""

\* the two credential checks: the message of the one that fails, "" if none
CredentialsRefused(password, key) ==
    IF password # "" /\ key # "" THEN "cannot specify both password and privateKey"
    ELSE IF password = "" /\ key = "" THEN "either password or privateKey is required for SSH"
    ELSE ""

validateNodeConfig(c) ==
    LET port == IF c.Port = 0 THEN 22 ELSE c.Port IN
    IF c.Address = <<>> THEN ValidationError(<<"node address is required">>)
    ELSE IF ~IsValidIPAddress(c.Address) /\ ~IsValidHostname(c.Address)
      THEN ValidationError(<<"invalid node address format">>)
    ELSE IF c.User = "" THEN ValidationError(<<"user is required">>)
    ELSE IF CredentialsRefused(c.Password, c.PrivateKey) # ""
      THEN ValidationError(<<CredentialsRefused(c.Password, c.PrivateKey)>>)
    ELSE IF port < 1 \/ port > 65535 THEN ValidationError(<<"invalid port number">>)
    ELSE IF Len(c.Roles) = 0 THEN ValidationError(<<"roles are required and cannot be empty">>)
    ELSE IF \E i \in DOMAIN c.Roles : c.Roles[i] \notin {"master", "worker", "edge"}
      THEN ValidationError(<<"invalid role">>)
    ELSE IF ~c.SysctlOk
      THEN Wrapped(<<"invalid sysctl configuration">>, ValidationError(<<"sysctl">>))
    ELSE IF c.Disks = "noDevice" THEN ValidationError(<<"disk config requires device name">>)
    ELSE NoError

\* a call of validateNodeConfig
ValidateNode ==
    /\ vaOut = Pending
    /\ vaOut' = validateNodeConfig(vaCfg)
    /\ UNCHANGED <<coreVars, overallVars, checksVars, recoveryVars, cliVars, vaCfg, loopVars>>

InitNodeValidate ==
    /\ InitCoreIdle
    /\ IdleOverall /\ IdleChecks /\ IdleRecovery /\ IdleCli
    /\ vaCfg \in ValidatedNodeConfigs
    /\ vaOut = Pending
    /\ IdleLoop

NextNodeValidate == ValidateNode

SpecNodeValidate == InitNodeValidate /\ [][NextNodeValidate]_vars

(* ------------- ValidateConfig's range loops, then Deploy --------------- *)
DefaultSSHPort == 22

NodePorts == {0, DefaultSSHPort, 65536}
AppNamespaces == {"", "prod"}

\* the fields of the caller's PlatformConfig that validation assigns to:
\* Cluster.Nodes[i].Port and Applications[name].Namespace, next to the
\* target of each application. The other fields of the same PlatformConfig
\* are in `config`; the fields not modelled pass their validation.
DefaultedFields(cfg) ==
    { [Ports |-> p, Applications |-> a] :
        p \in [DOMAIN cfg.Nodes -> NodePorts],
        a \in UNION { [as -> [VClusterName : TenantNames, Namespace : AppNamespaces]] :
                        as \in SUBSET AppNames } }

\* validateNodeConfig's assignment through its *NodeConfig argument
PortAfterValidation(port) == IF port = 0 THEN DefaultSSHPort ELSE port

\* validateApplicationConfig's assignment through its *ApplicationConfig argument
NamespaceAfterValidation(ns) == IF ns = "" THEN "default" ELSE ns

\* what the ranged-over slice or map holds at `key` once the loop body has
\* handed the address of its loop variable to a validator that left `after`
\* in it: `for _, v := range c` makes v a copy of the element
ElementWrittenThrough(element, after) == after
ElementAfterBody(element, after) == element

ValidateConfigStart ==
    /\ vaPc = "idle"
    /\ IF Len(config.Nodes) = 0
         THEN /\ vaOut' = Wrapped(<<"invalid cluster configuration">>,
                                  ValidationError(<<"cluster.nodes list is required and cannot be empty">>))
              /\ vaPc' = "done"
         ELSE /\ vaPc' = "nodes"
              /\ vaOut' = vaOut
    /\ UNCHANGED <<coreVars, overallVars, checksVars, recoveryVars, cliVars,
                   vaCfg, vaIdx, vaRemaining, vaCopies>>

\* one iteration of `for _, nodeCfg := range config.Nodes`
RangeNodes ==
    /\ vaPc = "nodes"
    /\ vaIdx < Len(config.Nodes)
    /\ LET i == vaIdx + 1
           after == PortAfterValidation(vaCfg.Ports[i])
       IN /\ vaCopies' = Append(vaCopies, [Kind |-> "node", Key |-> config.Nodes[i].Address, Port |-> after])
          /\ vaCfg' = [vaCfg EXCEPT !.Ports[i] = ElementAfterBody(@, after)]
          /\ IF after < 1 \/ after > 65535
               THEN /\ vaOut' = Wrapped(<<"invalid cluster configuration">>,
                                        Wrapped(<<"invalid node configuration">>,
                                                ValidationError(<<"invalid port number">>)))
                    /\ vaPc' = "done"
                    /\ vaIdx' = vaIdx
               ELSE /\ vaIdx' = i
                    /\ UNCHANGED <<vaOut, vaPc>>
    /\ UNCHANGED <<coreVars, overallVars, checksVars, recoveryVars, cliVars, vaRemaining>>

\* the node loop has ended: the master check, then on to the applications
RangeNodesEnd ==
    /\ vaPc = "nodes"
    /\ vaIdx = Len(config.Nodes)
    /\ IF ~HasMaster(config.Nodes)
         THEN /\ vaOut' = Wrapped(<<"invalid cluster configuration">>,
                                  ValidationError(<<"cluster.nodes must contain at least one node with role 'master'">>))
              /\ vaPc' = "done"
              /\ vaRemaining' = vaRemaining
         ELSE /\ vaPc' = "apps"
              /\ vaRemaining' = DOMAIN vaCfg.Applications
              /\ vaOut' = vaOut
    /\ UNCHANGED <<coreVars, overallVars, checksVars, recoveryVars, cliVars,
                   vaCfg, vaIdx, vaCopies>>

\* one iteration of `for name, appCfg := range config.Applications`
RangeApplications ==
    /\ vaPc = "apps"
    /\ \E name \in vaRemaining :
         LET app == vaCfg.Applications[name]
             after == NamespaceAfterValidation(app.Namespace)
         IN IF app.VClusterName \notin DOMAIN config.VClusters
              THEN /\ vaOut' = ValidationError(<<"application targets non-existent vcluster">>)
                   /\ vaPc' = "done"
                   /\ UNCHANGED <<vaCfg, vaRemaining, vaCopies>>
              ELSE /\ vaCopies' = Append(vaCopies, [Kind |-> "application", Key |-> name, Namespace |-> after])
                   /\ vaCfg' = [vaCfg EXCEPT !.Applications[name].Namespace = ElementAfterBody(@, after)]
                   /\ vaRemaining' = vaRemaining \ {name}
                   /\ UNCHANGED <<vaOut, vaPc>>
    /\ UNCHANGED <<coreVars, overallVars, checksVars, recoveryVars, cliVars, vaIdx>>

ValidateConfigReturn ==
    /\ vaPc = "apps"
    /\ vaRemaining = {}
    /\ vaOut' = NoError
    /\ vaPc' = "done"
    /\ UNCHANGED <<coreVars, overallVars, checksVars, recoveryVars, cliVars,
                   vaCfg, vaIdx, vaRemaining, vaCopies>>

\* Deploy is handed the configuration ValidateConfig has accepted
DeployValidated ==
    /\ vaPc = "done"
    /\ vaOut = NoError
    /\ NextDeploy

InitValidateDeploy ==
    /\ config \in [Nodes : NodeLists(1, MaxNodes, MaxNodes), VClusters : VClusterMaps]
    /\ calls = <<>>
    /\ dPhase = 0 /\ dNode = 0 /\ deployErr = Pending
    /\ vpPc = "idle" /\ vpClient = NilClient /\ vpCaller = "none"
    /\ vpRemaining = {} /\ vpCur = "none" /\ vpErr = Pending
    /\ InitHost({})
    /\ InitManager
    /\ InitScale
    /\ InitDelete
    /\ rsIn = "none" /\ rsOut = Pending
    /\ hcResults = <<>> /\ hcOverall = "none"
    /\ IdleOverall /\ IdleChecks /\ IdleRecovery /\ IdleCli
    /\ vaCfg \in DefaultedFields(config)
    /\ vaOut = Pending
    /\ IdleLoop

NextValidateDeploy ==
    \/ ValidateConfigStart
    \/ RangeNodes
    \/ RangeNodesEnd
    \/ RangeApplications
    \/ ValidateConfigReturn
    \/ DeployValidated

SpecValidateDeploy == InitValidateDeploy /\ [][NextValidateDeploy]_vars

(* ------------- GetOverallStatus with checkers that block --------------- *)
\* the per-check timeout of context.WithTimeout(ctx, 5*time.Second), in ticks
CheckTimeout == 2

\* checkCtx never ending: a context without the timeout and detached from
\* the caller's
ContextEndedNever(waited, callerDone) == FALSE

\* checkCtx is done: its timeout has passed or the caller's context has ended
ContextEnded(waited, callerDone) == callerDone \/ waited >= CheckTimeout

\* c.Check(checkCtx) of a running task starts waiting for something that
\* does not come: it blocks until checkCtx ends
CheckBlocks ==
    /\ \E i \in DOMAIN goTask :
         /\ goTask[i] = "running"
         /\ goTask' = [goTask EXCEPT ![i] = "blocked"]
    /\ UNCHANGED <<coreVars, checksVars, recoveryVars, validateVars, cliVars, componentCheckers, goPc, goSnapshot, goNext, goResults, goOverall, goWaited>>

\* time passes for the blocked checkers; a timer that is due fires first, and
\* a checker that is running gets on before time passes
Tick ==
    /\ \E i \in DOMAIN goTask : goTask[i] = "blocked"
    /\ \A i \in DOMAIN goTask : goTask[i] # "running"
    /\ \A i \in DOMAIN goTask :
         goTask[i] = "blocked" => (~ContextEnded(goWaited[i], FALSE) /\ goWaited[i] <= CheckTimeout)
    /\ goWaited' = [i \in DOMAIN goWaited |->
                      IF goTask[i] = "blocked" THEN goWaited[i] + 1 ELSE goWaited[i]]
    /\ UNCHANGED <<coreVars, checksVars, recoveryVars, validateVars, cliVars, componentCheckers, goPc, goSnapshot, goNext, goTask, goResults, goOverall>>

\* checkCtx of a blocked checker ends: Check returns what it has, the result
\* is stored in its slot, and the deferred cancel and wg.Done run
CheckContextEnds ==
    /\ \E i \in DOMAIN goTask, callerDone \in BOOLEAN :
         /\ goTask[i] = "blocked"
         /\ ContextEnded(goWaited[i], callerDone)
         /\ \E st \in {"Unhealthy", "Unknown"} :
              goResults' = [goResults EXCEPT ![i] = [Name |-> goSnapshot[i], Status |-> st]]
         /\ goTask' = [goTask EXCEPT ![i] = "done"]
    /\ UNCHANGED <<coreVars, checksVars, recoveryVars, validateVars, cliVars, componentCheckers, goPc, goSnapshot, goNext, goOverall, goWaited>>

\* the steps of a GetOverallStatus and of its checker tasks
OverallRun ==
    \/ GetOverallStatusCall
    \/ CopyChecker
    \/ CopyDone
    \/ SpawnCheck
    \/ SpawnDone
    \/ RunCheck
    \/ CheckBlocks
    \/ Tick
    \/ CheckContextEnds
    \/ GetOverallStatusReturn

NextOverallLive ==
    \/ RegisterComponentCheck
    \/ OverallRun

\* goroutines that can run do run, time passes, and timers fire
SpecOverallLive == InitOverall /\ [][NextOverallLive]_vars /\ WF_vars(OverallRun)

(* ============================ properties ============================== *)
PhaseIdx(op) ==
    IF op = "VClusterDeploy.call" THEN 7
    ELSE CHOOSE k \in 1..7 : PhaseNames[k] = op

\* C1: in a Deploy run the phases are invoked in the order Init, OSConfig,
\* RuntimeConfig, NetworkConfig, StorageConfig, K8sInstall, VClusterDeploy;
\* a phase is run for a node only after the phase before it succeeded for
\* that node; and nothing is run after a failed phase, neither the next phase
\* for that node nor VClusterDeploy
C1_StrictPhaseOrder ==
    /\ \A i, j \in DOMAIN calls : i < j => PhaseIdx(calls[i].op) <= PhaseIdx(calls[j].op)
    /\ \A j \in DOMAIN calls :
         PhaseIdx(calls[j].op) \in 2..5 =>
           \E i \in 1..(j - 1) :
             calls[i] = Call(PhaseNames[PhaseIdx(calls[j].op) - 1], calls[j].target, TRUE)
    /\ \A j \in DOMAIN calls :
         PhaseIdx(calls[j].op) \in 6..7 =>
           \A n \in DOMAIN config.Nodes :
             \E i \in 1..(j - 1) : calls[i] = Call("StorageConfig", config.Nodes[n].Address, TRUE)
    /\ \A i \in DOMAIN calls : ~calls[i].ok => i = Len(calls)
    /\ (\E i \in DOMAIN calls : ~calls[i].ok) => dPhase = 8 /\ deployErr # NoError

\* a run of two nodes in which RuntimeConfig failed for the second node
C1_Witness ==
    /\ dPhase = 8
    /\ Len(config.Nodes) = 2
    /\ calls[Len(calls)] = Call("RuntimeConfig", config.Nodes[2].Address, FALSE)

AllCallsOk == \A i \in DOMAIN calls : calls[i].ok
CountCalls(op, target) ==
    Cardinality({i \in DOMAIN calls : calls[i].op = op /\ calls[i].target = target})

\* C2: Deploy with one master node and no vclusters, phases 1-6 succeeding,
\* returns nil
C2_DeployReturnsNil ==
    ( /\ dPhase = 8
      /\ Len(config.Nodes) = 1
      /\ config.Nodes[1].Master
      /\ DOMAIN config.VClusters = {}
      /\ AllCallsOk
      /\ CountCalls("K8sInstall", "cluster") = 1 )
    => deployErr = NoError

\* C3: in a Deploy run in which no phase implementation reports a failure,
\* each of phases 1-5 has run once per node, K8sInstall once, and Create
\* once per configured tenant
C3_EveryPhaseRunsOnce ==
    (dPhase = 8 /\ AllCallsOk) =>
      /\ \A k \in 1..5 : \A n \in DOMAIN config.Nodes :
           CountCalls(PhaseNames[k], config.Nodes[n].Address) = 1
      /\ CountCalls("K8sInstall", "cluster") = 1
      /\ \A t \in DOMAIN config.VClusters : CountCalls("Create.call", t) = 1

IsManagerCall(c) == c.op \in {"Create.call", "WaitForReady.call"}
IsManagerReturn(c) == c.op \in {"Create", "WaitForReady"}

\* C4: in VClusterDeployPhase.Run, WaitForReady is invoked for a tenant only
\* right after that tenant's Create returned success; once a Create or a
\* WaitForReady has failed no further Create or WaitForReady is invoked, and
\* Run returns an error
C4_TenantFailureAborts ==
    /\ \A j \in DOMAIN calls :
         calls[j].op = "WaitForReady.call" =>
           j > 1 /\ calls[j - 1] = Call("Create", calls[j].target, TRUE)
    /\ \A i, j \in DOMAIN calls :
         (i < j /\ IsManagerReturn(calls[i]) /\ ~calls[i].ok) => ~IsManagerCall(calls[j])
    /\ (\E i \in DOMAIN calls : IsManagerReturn(calls[i]) /\ ~calls[i].ok) =>
         vpPc \in {"ret", "done"} /\ vpErr # NoError /\ vpErr # Pending

\* two tenants: the first became ready, the Create of the second failed
C4_Witness ==
    /\ vpPc = "done"
    /\ Len(calls) = 7
    /\ calls[5].op = "WaitForReady" /\ calls[5].ok
    /\ calls[7].op = "Create" /\ ~calls[7].ok
    /\ vpRemaining = {}

\* C5: ScaleHostCluster with nodesToRemove holding every master rejects the
\* call: no RemoveNode is invoked and an error is returned
C5_RejectsRemovingAllMasters ==
    (scPc # "idle" /\ Masters(Range(config.Nodes)) \subseteq Range(scRemove)) =>
      /\ \A i \in DOMAIN calls : calls[i].op # "RemoveNode"
      /\ scPc = "ret" => scaleErr # NoError

\* the majority of n masters
Quorum(n) == (n \div 2) + 1

\* C6: on a multi-master cluster the masters that remain members are never
\* fewer than the quorum of the masters there were
C6_MastersKeepQuorum ==
    Cardinality(Masters(Range(config.Nodes))) >= 2 =>
      Cardinality(Masters(LiveNodes)) >=
        Quorum(Cardinality(Masters(Range(config.Nodes) \cup AddedNodes)))

\* C7: in ScaleHostCluster no AddNode (nor a phase it runs) comes after a
\* RemoveNode, and a failed AddNode is the last call made: the call has
\* returned an error
C7_AddBeforeRemoveFailFast ==
    /\ \A i, j \in DOMAIN calls :
         (i < j /\ calls[i].op = "RemoveNode") => calls[j].op = "RemoveNode"
    /\ \A i \in DOMAIN calls :
         (calls[i].op = "AddNode" /\ ~calls[i].ok) =>
           /\ i = Len(calls)
           /\ scPc = "ret"
           /\ scaleErr # NoError

\* two nodes to add and one to remove: the first AddNode failed
C7_Witness ==
    /\ scPc = "ret"
    /\ Len(scAdd) = 2 /\ Len(scRemove) >= 1
    /\ calls[Len(calls)] = Call("AddNode", scAdd[1].Address, FALSE)

\* a formatted string contains the tenant name: it is the name, or the
\* conventional namespace "vcluster-<name>"
Mentions(token, name) == token = name \/ token = ConventionalNs(name)

\* C8: Create never polls beyond the deadline, and when the deadline ends the
\* poll it returns a VCluster error that wraps the deadline error and whose
\* message contains the tenant name
C8_TimeoutNamesTenant ==
    /\ crPc = "poll" => crPolls < MaxPolls
    /\ (crPc = "ret" /\ crErr.cause = "DeadlineExceeded") =>
         /\ crErr.type = "VCluster"
         /\ crPolls = MaxPolls
         /\ \E k \in DOMAIN crErr.msg : Mentions(crErr.msg[k], crCfg.Name)

\* name "biz-a" in a namespace not named after it: the poll timed out
C8_Witness ==
    /\ crPc = "ret"
    /\ crCfg = [Name |-> "biz-a", Namespace |-> "tenants"]
    /\ crErr.cause = "DeadlineExceeded"
    /\ "biz-a" \in {crErr.msg[k] : k \in DOMAIN crErr.msg}

\* C9: Create returns nil only from a poll that reads the deployment named
\* config.Name in config.Namespace with ReadyReplicas >= Replicas and
\* ReadyReplicas > 0; a poll that finds no deployment does not end Create
\* with an error of its own (only the deadline, the context or an API fault do)
C9_SuccessOnlyWhenReady ==
    [][ (crPc # "ret" /\ crPc' = "ret") =>
          LET d == hostDeployments[<<crCfg.Namespace, crCfg.Name>>] IN
          /\ crErr' = NoError =>
               /\ crPc = "poll"
               /\ d.Exists /\ d.ReadyReplicas >= d.Replicas /\ d.ReadyReplicas > 0
          /\ (crPc = "poll" /\ ~d.Exists) =>
               /\ crErr' # NoError
               /\ crErr'.cause \in {"DeadlineExceeded", "context", "ServerError"}
               /\ crErr'.cause = "DeadlineExceeded" => crPolls' = MaxPolls ]_vars

\* Create succeeded at its second attempt, after a retry
C9_Witness ==
    /\ crPc = "ret"
    /\ crErr = NoError
    /\ crPolls = 2
    /\ crSeen.Exists /\ crSeen.ReadyReplicas > 0

NamespaceStepFailed ==
    /\ crPc = "ret"
    /\ Len(crErr.msg) >= 1
    /\ crErr.msg[1] = "failed to create host namespace"

\* C10: the namespace step of Create fails only on an API error other than
\* AlreadyExists: a namespace that is already there, as in a second Create
\* with the same config, lets Create go on to the manifests
C10_ExistingNamespaceTolerated ==
    /\ NamespaceStepFailed => crNsResult \notin {"nil", "AlreadyExists"}
    /\ crNsResult = "AlreadyExists" =>
         crPc \in {"apply", "poll", "ret"} /\ crCfg.Namespace \in hostNamespaces

\* a second Create with the same config: the namespace step was answered
\* AlreadyExists and Create went on
C10_Witness ==
    /\ \E i \in DOMAIN calls : calls[i].op = "Create" /\ calls[i].target = crCfg.Name
    /\ crNsResult = "AlreadyExists"
    /\ crPc = "apply"

\* an error of the host API or of the context, not of the manager's own making
OutsideCauses == {"ServerError", "context"}
FailedOutside(err) == err.type = "context" \/ err.cause \in OutsideCauses

\* the lifecycle state of a tenant, read off the objects of the host cluster
TenantState(cfg) ==
    IF cfg.Namespace \notin hostNamespaces THEN "Absent"
    ELSE IF cfg.Namespace \in hostTerminating THEN "Deleting"
    ELSE LET d == hostDeployments[<<cfg.Namespace, cfg.Name>>] IN
         IF ~d.Exists THEN "NamespaceEnsured"
         ELSE IF DeploymentReady(d) THEN "Ready"
         ELSE "AwaitingReady"

\* C11: Create on a tenant that is already Ready is idempotent: no step of
\* Create changes a deployment of the host cluster or takes a namespace away,
\* so the tenant stays Ready, and a Create that returns while the tenant is
\* Ready returns nil unless the host API failed or the context ended
C11_CreateOnReadyIdempotent ==
    [][ (createVars' # createVars) =>
          /\ hostDeployments' = hostDeployments
          /\ hostNamespaces \subseteq hostNamespaces'
          /\ (crPc # "idle" /\ crPc' = "ret" /\ TenantState(crCfg) = "Ready") =>
                \/ crErr' = NoError /\ TenantState(crCfg)' = "Ready"
                \/ FailedOutside(crErr') ]_vars

\* a second Create, after one that succeeded, found the namespace there and
\* the deployment ready at its first poll
C11_Witness ==
    /\ \E i \in DOMAIN calls : calls[i].op = "Create" /\ calls[i].ok
    /\ crPc = "ret"
    /\ crNsResult = "AlreadyExists"
    /\ crPolls = 1
    /\ crErr = NoError
    /\ TenantState(crCfg) = "Ready"

\* C12: Delete of a tenant whose host namespace is absent (Namespaces().Delete
\* answered NotFound) returns nil at the first poll, unless the host API failed
\* or the context ended
C12_DeleteAbsentSucceeds ==
    (dlPc = "ret" /\ dlDelResult = "NotFound") =>
        \/ dlErr = NoError /\ dlPolls = 1
        \/ FailedOutside(dlErr)

\* Delete of a tenant that was never created has returned nil
C12_Witness ==
    /\ dlPc = "ret"
    /\ dlDelResult = "NotFound"
    /\ dlErr = NoError
    /\ \A i \in DOMAIN calls : calls[i].op # "Create.call"

\* C13: when Delete(name) returns nil the namespace vcluster-<name> is not in
\* the host cluster any more
C13_DeletedNamespaceGone ==
    (dlPc = "ret" /\ dlErr = NoError) => ConventionalNs(dlName) \notin hostNamespaces

\* Delete found the namespace, waited for it through a retry and returned nil
C13_Witness ==
    /\ dlPc = "ret"
    /\ dlErr = NoError
    /\ dlDelResult = "nil"
    /\ dlPolls = 2
    /\ ConventionalNs(dlName) \notin hostNamespaces

LifecycleMoves ==
    { <<"Absent", "NamespaceEnsured">>, <<"NamespaceEnsured", "AwaitingReady">>,
      <<"AwaitingReady", "Ready">>, <<"Ready", "Deleting">>, <<"Deleting", "Absent">> }

\* a step of Create, WaitForReady or Delete
ManagerStep ==
    createVars' # createVars \/ waitVars' # waitVars \/ deleteVars' # deleteVars

\* C15: a step of Create, WaitForReady or Delete changes the lifecycle state of
\* a tenant only along Absent -> NamespaceEnsured -> AwaitingReady -> Ready and
\* Ready -> Deleting -> Absent
C15_LifecycleMovesOnly ==
    [][ ManagerStep =>
          \A t \in DOMAIN config.VClusters :
            LET cfg == config.VClusters[t] IN
            TenantState(cfg)' # TenantState(cfg) =>
                <<TenantState(cfg), TenantState(cfg)'>> \in LifecycleMoves ]_vars

\* C16: a WaitForReady attempt that gets no client or no answer from the tenant
\* API is followed by another attempt or, at the deadline, by the return of a
\* VCluster error wrapping the deadline error; WaitForReady fails in no other
\* way than by the deadline or the context, and every WaitForReady returns
C16_WaitRetriesUntilDeadline ==
    /\ [][ (wPc = "poll" /\ wPolls' = wPolls + 1 /\ wSeen' # "listed") =>
             \/ wPc' = "poll" /\ wPolls' < MaxPolls
             \/ /\ wPc' = "ret" /\ wPolls' = MaxPolls
                /\ wErr'.type = "VCluster" /\ wErr'.cause = "DeadlineExceeded" ]_vars
    /\ []((wPc = "ret" /\ wErr # NoError) =>
             wErr.type = "VCluster" /\ wErr.cause \in {"DeadlineExceeded", "context"})
    /\ ((wPc = "poll") ~> (wPc = "ret"))

\* WaitForReady reached the deadline, its last attempt failing on an API error
C16_Witness ==
    /\ wPc = "ret"
    /\ wErr.type = "VCluster"
    /\ wErr.cause = "DeadlineExceeded"
    /\ wPolls = MaxPolls
    /\ wSeen = "ServerError"

\* C17: a polling loop goes on only after an attempt that found the object not
\* there yet or not ready yet; an attempt that ended in another error is the
\* last attempt
C17_OnlyRetryablesRetried ==
    /\ (crPc = "poll" /\ crPolls > 0) => ~DeploymentReady(crSeen)
    /\ dlPc = "poll" => dlSeen \in {"none", "exists"}
    /\ wPc = "poll" => wSeen \in {"none", "NotFound", "noCA", "listFailed"}

C19_ClientNeedsBothSecrets ==
    rsOut # Pending =>
        IF rsIn.certs = "ok" /\ rsIn.token = "ok" /\ ~rsIn.fault
          THEN rsOut = NoError
          ELSE rsOut # NoError /\ rsOut.type = "VCluster"

\* the aggregation rule: Unhealthy before Degraded before Healthy
OverallOf(statuses) ==
    IF "Unhealthy" \in statuses THEN "Unhealthy"
    ELSE IF "Degraded" \in statuses THEN "Degraded"
    ELSE "Healthy"

\* the lists that hold the results of a list in another order
Reorderings(results) ==
    { [i \in DOMAIN results |-> results[f[i]]] : f \in Permutations(DOMAIN results) }

\* C20: the overall status is Unhealthy if a result is Unhealthy, else Degraded
\* if a result is Degraded, else Healthy, in whatever order the results come
C20_OverallStatusByWorst ==
    hcOverall # "none" =>
        /\ hcOverall = OverallOf(Range(hcResults))
        /\ \A r \in Reorderings(hcResults) : determineOverallStatus(r) = hcOverall
        /\ determineOverallStatus(<<"Healthy", "Degraded">>) = "Degraded"
        /\ determineOverallStatus(<<"Healthy", "Unhealthy", "Degraded">>) = "Unhealthy"
        /\ determineOverallStatus(<<>>) = "Healthy"

\* a Degraded result ahead of an Unhealthy one has been aggregated
C20_Witness ==
    /\ Len(hcResults) = 3
    /\ hcResults[1] = "Degraded" /\ hcResults[2] = "Healthy" /\ hcResults[3] = "Unhealthy"
    /\ hcOverall = "Unhealthy"

\* the checkers registered when GetOverallStatus took its snapshot
SnapshotNames == {goSnapshot[i] : i \in DOMAIN goSnapshot}

\* C21: GetOverallStatus starts one concurrent task per registered checker
\* and computes the overall status only after every one of them has
\* completed: the status it returns is the fold of exactly one written
\* result per checker of the snapshot, none of them still unwritten
C21_FoldAfterAllChecks ==
    /\ goPc \in {"wait", "done"} =>
         /\ Len(goTask) = Cardinality(SnapshotNames)
         /\ \A i \in DOMAIN goTask : goTask[i] # "new"
    /\ goPc = "done" =>
         /\ \A i \in DOMAIN goTask : goTask[i] = "done"
         /\ Len(goResults) = Len(goSnapshot)
         /\ \A i \in DOMAIN goResults :
              /\ goResults[i].Name = goSnapshot[i]
              /\ goResults[i].Status \in HealthStatuses
         /\ goOverall.Results = goResults
         /\ goOverall.Status = determineOverallStatus(StatusesOf(goResults))

C21_Witness ==
    /\ goPc = "done"
    /\ Len(goSnapshot) = 3
    /\ goResults[1].Status = "Healthy"
    /\ goResults[2].Status = "Degraded"
    /\ goResults[3].Status = "Unhealthy"
    /\ goOverall.Status = "Unhealthy"

\* the checks of a log that failed
FailedChecks(log) == {i \in DOMAIN log : log[i].failed}

\* C22: RunClusterChecks goes on with the remaining checks after one has
\* failed, collecting the failures: when it returns, the three host checks and
\* every tenant of the configuration have been checked exactly once, there is
\* one collected failure per failed check, and the result is one System error
\* if some failure was collected and nil if none was
C22_ChecksAccumulate ==
    rcPc = "ret" =>
      /\ Len(rcChecked) = Len(HostChecks) + Cardinality(rcTenants)
      /\ \A i \in DOMAIN HostChecks : rcChecked[i].check = HostChecks[i]
      /\ {rcChecked[i].check : i \in DOMAIN rcChecked \ DOMAIN HostChecks} = rcTenants
      /\ Len(rcErrors) = Cardinality(FailedChecks(rcChecked))
      /\ (rcErr # NoError) <=> (Len(rcErrors) > 0)
      /\ rcErr # NoError => rcErr.type = "System"

C22_Witness ==
    /\ rcPc = "ret"
    /\ Len(rcChecked) = 6
    /\ rcChecked[4].failed /\ ~rcChecked[5].failed /\ rcChecked[6].failed
    /\ Len(rcErrors) = 2
    /\ rcErr.type = "System"

\* the steps of the log that were carried out with success
StepsDone == {lcSteps[i].step : i \in {j \in DOMAIN lcSteps : lcSteps[j].ok}}
\* the steps of the log, whatever their outcome
StepsTried == {lcSteps[i].step : i \in DOMAIN lcSteps}

\* C23: BackupPlatform never returns nil while an enabled backup target was
\* not backed up: each enabled target (ETCD, configuration files) is either
\* backed up or the call returns a Reliability error
C23_BackupFailureReported ==
    (lcOp = "backup" /\ lcPc = "ret") =>
      /\ (lcCfg.ETCDBackup /\ "etcd-snapshot" \notin StepsDone) => lcErr.type = "Reliability"
      /\ (lcCfg.ConfigBackup /\ "config-files" \notin StepsDone) => lcErr.type = "Reliability"

C25_NoRestoreWithoutLocation ==
    (lcOp = "restore" /\ lcLocation = "") =>
      StepsTried \cap {"config-restore", "etcd-transfer", "etcd-restore"} = {}

\* C26: RestorePlatform never returns nil while an enabled restore step
\* failed or was not carried out
C26_RestoreFailureSurfaced ==
    (lcOp = "restore" /\ lcPc = "ret") =>
      /\ (lcCfg.ETCDBackup /\ "etcd-restore" \notin StepsDone) => lcErr # NoError
      /\ (lcCfg.ConfigBackup /\ "config-restore" \notin StepsDone) => lcErr # NoError

\* the phase invocations of the log, as <<phase, target>>
Invoked(log) == [i \in DOMAIN log |-> <<log[i].op, log[i].target>>]

\* C27: Deploy is fail-fast without rollback: the record of the phases run
\* only grows, nothing at all is run once a phase has failed, no phase is
\* run a second time for the same target, so what the completed phases did
\* stays as it is when Deploy returns the error
C27_FailFastNoRollback ==
    [][ /\ Len(calls') >= Len(calls)
        /\ SubSeq(calls', 1, Len(calls)) = calls
        /\ (\E i \in DOMAIN calls : ~calls[i].ok) => calls' = calls
        /\ \A i, j \in DOMAIN calls' : i < j => Invoked(calls')[i] # Invoked(calls')[j]
      ]_vars

\* Init succeeded on both nodes, then OSConfig failed on the first: Deploy
\* has returned that error with both Init runs left as they were
C27_Witness ==
    /\ dPhase = 8
    /\ Failed(deployErr)
    /\ Len(config.Nodes) = 2
    /\ calls = <<Call("Init", config.Nodes[1].Address, TRUE),
                 Call("Init", config.Nodes[2].Address, TRUE),
                 Call("OSConfig", config.Nodes[1].Address, FALSE)>>

\* the calls logged between the deployer call before index j and index j
StepsBefore(j) ==
    LET prev == {i \in 1..(j - 1) : calls[i].op \in {"AddNode", "RemoveNode"}}
        from == IF prev = {} THEN 1 ELSE 1 + CHOOSE i \in prev : \A k \in prev : k <= i
    IN SubSeq(calls, from, j - 1)

\* C28: AddNode runs Init, OSConfig, RuntimeConfig, NetworkConfig and
\* StorageConfig in that order, each for the new node and no other, and then
\* the join step for that node; when a step fails AddNode returns an error
\* and none of the later steps is run
C28_AddNodeStepsInOrder ==
    \A j \in DOMAIN calls :
      calls[j].op = "AddNode" =>
        LET steps == StepsBefore(j) IN
        /\ \A k \in DOMAIN steps : steps[k].target = calls[j].target
        /\ \A k \in DOMAIN steps : k <= 5 => steps[k].op = PhaseNames[k]
        /\ \A k \in DOMAIN steps : k < Len(steps) => steps[k].ok
        /\ calls[j].ok =>
             Len(steps) = 6 /\ steps[6] = Call("K8sJoin", calls[j].target, TRUE)
        /\ ~calls[j].ok =>
             /\ Len(steps) \in 1..5
             /\ ~steps[Len(steps)].ok
             /\ Failed(scaleErr)

\* the first new node went through all six steps, the second failed at
\* NetworkConfig
C28_Witness ==
    /\ Len(scAdd) = 2
    /\ Len(calls) = 12
    /\ calls[6] = Call("K8sJoin", scAdd[1].Address, TRUE)
    /\ calls[7] = Call("AddNode", scAdd[1].Address, TRUE)
    /\ calls[11] = Call("NetworkConfig", scAdd[2].Address, FALSE)
    /\ calls[12] = Call("AddNode", scAdd[2].Address, FALSE)

\* the error is a Validation error, or wraps one with %w
IsValidationError(err) ==
    \/ err.type = "Validation"
    \/ err.type = "fmt" /\ err.cause = "Validation"

\* some application of the configuration targets a vcluster that is no key
\* of VClusters
HasStrayApplication(cfg) ==
    \E a \in DOMAIN cfg.Applications :
      cfg.Applications[a].VClusterName \notin DOMAIN cfg.VClusters

\* C30: whenever an application of the configuration names a vcluster that
\* is not a key of the VClusters map, ValidateConfig returns an error, and
\* that error is a Validation error or wraps one
C30_StrayApplicationRejected ==
    (vaOut # Pending /\ HasStrayApplication(vaCfg)) =>
      /\ Failed(vaOut)
      /\ IsValidationError(vaOut)

\* every section is valid but for one application that targets "biz-x":
\* the error is the one of the existence check
C30_Witness ==
    /\ vaCfg.MetadataName # "" /\ vaCfg.OutputOk /\ vaCfg.ClusterOk /\ vaCfg.SysctlOk
    /\ vaCfg.DFXOk
    /\ DOMAIN vaCfg.VClusters = {"biz-a"} /\ vaCfg.VClusters["biz-a"].Ok
    /\ DOMAIN vaCfg.Applications = {"web", "db"}
    /\ vaCfg.Applications["web"] = [VClusterName |-> "biz-a", Ok |-> TRUE]
    /\ vaCfg.Applications["db"] = [VClusterName |-> "biz-x", Ok |-> TRUE]
    /\ vaOut = ValidationError(<<"application", "db", "targets non-existent vcluster", "biz-x">>)

C31_OnlyOneSourceMessage ==
    vaOut # Pending =>
      /\ vaOut = NoError => ManifestSources(vaCfg) = 1
      /\ (vaCfg.HelmChart # "nil" /\ Len(vaCfg.Manifests) > 0) =>
           vaOut = ValidationError(OnlyOneMessage(vaCfg.Key))

\* the fields checked before the sources are counted are in order
SourcesReached(c) ==
    /\ c.Name = c.Key /\ c.VClusterName # "" /\ c.Type \in {"general", "io-bound"}
    /\ c.HelmChart # "incomplete" /\ c.Kustomize # "noPath"
    /\ \A i \in DOMAIN c.Manifests : c.Manifests[i] # ""

\* C31 amended: an ApplicationConfig is accepted only with exactly one
\* manifest source; one with both a HelmChart and a Manifests list is always
\* rejected with a Validation error, and that error is the only-one-source
\* error whenever no earlier check of the config fails
C31_ExactlyOneSource ==
    vaOut # Pending =>
      /\ vaOut = NoError => ManifestSources(vaCfg) = 1
      /\ (vaCfg.HelmChart # "nil" /\ Len(vaCfg.Manifests) > 0) =>
           /\ vaOut.type = "Validation"
           /\ SourcesReached(vaCfg) => vaOut = ValidationError(OnlyOneMessage(vaCfg.Key))

C31_Witness ==
    /\ vaCfg.HelmChart = "ok" /\ vaCfg.Kustomize = "nil"
    /\ vaCfg.Manifests = <<"app.yaml">>
    /\ vaOut = ValidationError(OnlyOneMessage("web"))

\* C32: a NodeConfig with both a password and a private key is rejected, one
\* with neither is rejected, and an accepted one has exactly one of the two
C32_ExactlyOneCredential ==
    vaOut # Pending =>
      /\ (vaCfg.Password # "" /\ vaCfg.PrivateKey # "") => Failed(vaOut)
      /\ (vaCfg.Password = "" /\ vaCfg.PrivateKey = "") => Failed(vaOut)
      /\ vaOut = NoError => (vaCfg.Password = "") # (vaCfg.PrivateKey = "")

\* a node that is in order but for carrying both credentials
C32_Witness ==
    /\ vaCfg.Address = <<"a", "1">> /\ vaCfg.User = "root"
    /\ vaCfg.Password = "secret" /\ vaCfg.PrivateKey = "id_rsa"
    /\ vaCfg.Port = 0 /\ vaCfg.Roles = <<"master">> /\ vaCfg.SysctlOk /\ vaCfg.Disks = "ok"
    /\ vaOut = ValidationError(<<"cannot specify both password and privateKey">>)

\* a hostname as RFC 952 / RFC 1123 write it: labels separated by dots, each
\* of 1 to 63 letters, digits and hyphens, none beginning or ending with a
\* hyphen; the dot that ends a fully qualified name is let through
WellFormedHostname(s) ==
    LET t == IF Len(s) > 1 /\ s[Len(s)] = "." THEN SubSeq(s, 1, Len(s) - 1) ELSE s IN
    /\ Len(s) \in 1..253
    /\ \A p \in Pieces(t, ".") :
         /\ p[2] - p[1] + 1 \in 1..63
         /\ \A i \in p[1]..p[2] : t[i] \in Letters \cup Digits \cup {"-"}
         /\ t[p[1]] # "-" /\ t[p[2]] # "-"

\* the error is one of the two that refuse the address
AddressRefused(err) ==
    err \in {ValidationError(<<"node address is required">>),
             ValidationError(<<"invalid node address format">>)}

\* C33: validation accepts a node's address exactly when the address is a
\* syntactically valid IP address or hostname
C33_AddressAcceptedIffValid ==
    vaOut # Pending =>
      (~AddressRefused(vaOut) <=>
         (IsValidIPAddress(vaCfg.Address) \/ WellFormedHostname(vaCfg.Address)))

CreatedThenDeleted(t) ==
    /\ Len(calls) >= 4
    /\ LET n == Len(calls) IN
         /\ calls[n - 3] = Call("Create.call", t, TRUE)
         /\ calls[n - 2] = Call("Create", t, TRUE)
         /\ calls[n - 1] = Call("Delete.call", t, TRUE)
         /\ calls[n] = Call("Delete", t, TRUE)

\* C35: after Create(config) and then a Delete(config.Name) that returns no
\* error, the host namespace Create ensured for the tenant, config.Namespace,
\* no longer exists
C35_CreateDeleteRoundTrip ==
    \A t \in DOMAIN config.VClusters :
        CreatedThenDeleted(t) => config.VClusters[t].Namespace \notin hostNamespaces

\* C36: once Create has returned no error for a tenant, a WaitForReady for
\* that tenant name resolves its client (certs secret and service endpoint)
\* in the namespace Create worked in, config.Namespace. The namespace
\* GetVClusterClient reads is ConventionalNs(name)
C36_SameNamespaceAsCreate ==
    \A t \in DOMAIN config.VClusters :
        ( /\ \E i \in DOMAIN calls : calls[i] = Call("Create", t, TRUE)
          /\ wName = t
          /\ wPolls > 0 )
        => ConventionalNs(t) = config.VClusters[t].Namespace

C38_HealthyOnlyIfAllHealthy ==
    (goPc = "done" /\ goOverall.Status = "Healthy")
        => \A i \in DOMAIN goResults : goResults[i].Status = "Healthy"

\* C39: RegisterComponentCheck runs at any moment of a GetOverallStatus and
\* never while the registry is ranged over under the read lock; the snapshot
\* holds every checker registered at the unlock exactly once and is not
\* touched by later registrations; a result slot is written only by its own
\* running task, which is done with it, and the fold starts only when every
\* slot has been written
C39_SnapshotAndSlotsRaceFree ==
    [][ /\ goPc = "copy" => componentCheckers' = componentCheckers
        /\ (goPc = "copy" /\ goPc' = "spawn") =>
              /\ {goSnapshot'[i] : i \in DOMAIN goSnapshot'} = componentCheckers
              /\ \A i, j \in DOMAIN goSnapshot' : goSnapshot'[i] = goSnapshot'[j] => i = j
        /\ goPc \in {"spawn", "wait", "done"} => goSnapshot' = goSnapshot
        /\ goPc \in {"spawn", "wait", "done"} =>
              \A i \in DOMAIN goResults :
                  goResults'[i] # goResults[i] =>
                      /\ goTask[i] = "running" /\ goTask'[i] = "done"
                      /\ goResults[i] = ZeroResult
                      /\ \A j \in DOMAIN goResults \ {i} : goResults'[j] = goResults[j]
        /\ (goPc = "wait" /\ goPc' = "done") =>
              \A i \in DOMAIN goResults : goResults[i] # ZeroResult
      ]_vars

\* a checker was registered after the snapshot was taken, while a task of
\* the snapshot had written its slot and another was still running, and
\* GetOverallStatus is waiting
C39_Witness ==
    /\ goPc = "wait"
    /\ SnapshotNames # componentCheckers
    /\ \E i, j \in DOMAIN goTask : goTask[i] = "done" /\ goTask[j] = "running"

\* C40: a GetOverallStatus that has been called returns, whatever its
\* checkers do up to the end of their contexts, and no checker is waited for
\* beyond the per-check timeout
C40_OverallStatusReturns ==
    /\ [](\A i \in DOMAIN goWaited : goWaited[i] <= CheckTimeout)
    /\ (goPc = "copy" ~> goPc = "done")

\* GetOverallStatus has returned after a checker stayed blocked for the whole
\* per-check timeout
C40_Witness ==
    /\ goPc = "done"
    /\ \E i \in DOMAIN goWaited : goWaited[i] = CheckTimeout

====
